---------------------------- MODULE Spec2Model ----------------------------
(***************************************************************************)
(* A model of src/server.py, the Poe-to-OpenAI protocol bridge.           *)
(*                                                                         *)
(* Text.  A Python str is a sequence of symbols.  A symbol is a TLA+      *)
(* string and stands for a fixed piece of text ("{", ":", "text", ...);   *)
(* the substrings the code searches for are sequences of symbols, so that *)
(* `in`, split, startswith and json.loads are computed on the text and    *)
(* not assumed.  A Python value is a tagged record (PyStr, PyNone, ...).  *)
(***************************************************************************)
EXTENDS Integers, Sequences, FiniteSets, TLC

VARIABLES
    \* ---- the process
    tiktoken_ok,           \* tiktoken.get_encoding("cl100k_base") succeeds
    suspended,             \* the frame of a second call that waits at an await
    \* ---- one call of a streaming generator or of an accumulator
    fn,                    \* the function called
    format_type,           \* its format_type argument
    model_arg,             \* its model argument, as passed
    messages,              \* its messages argument (ProtocolMessage list)
    pc,                    \* where the call stands
    model,                 \* the local `model` after normalize_model
    consumed,              \* the upstream events received so far, in order
    first_chunk,
    accumulated_response,  \* accumulated_response / accumulated_text
    token_counts,
    out,                   \* the frames yielded so far, in order
    received_files,
    response,              \* the dict the accumulators build and return
    raised,                \* the exception that left the call
    \* ---- one call of parse_poe_error
    epc,                   \* "called", then "returned"
    fault,                 \* its argument
    parsed,                \* its result
    \* ---- one call of convert_openai_content_to_poe
    content_arg,           \* its content argument (list of content parts)
    uploads,               \* per part processed: how its upload ended
    cpc,                   \* where the call stands
    text_parts,
    attachments,
    converted,             \* the (text, attachments) pair it returns
    \* ---- one request to an HTTP handler
    endpoint,              \* the handler called
    request,               \* the request body
    hpc,                   \* where the handler stands
    reply,                 \* the response returned or the HTTPException raised
    \* ---- the locals of image_generations / image_edits
    img_messages,
    num_images,
    attempt,               \* the loop variable i
    file_result,
    data,
    successful_generations,
    outcomes               \* how each attempt ended, in attempt order

gen_vars == <<fn, format_type, model_arg, messages, pc, model, consumed,
              first_chunk, accumulated_response, token_counts, out,
              received_files, response, raised>>

err_vars == <<epc, fault, parsed>>

conv_vars == <<content_arg, uploads, cpc, text_parts, attachments, converted>>

http_vars == <<endpoint, request, hpc, reply>>

img_vars == <<img_messages, num_images, attempt, file_result, data,
              successful_generations, outcomes>>

rest_vars == <<conv_vars, http_vars, img_vars>>

vars == <<tiktoken_ok, suspended, gen_vars, err_vars, rest_vars>>

----------------------------------------------------------------------------
(* Symbols *)

LBRACE == "{"
RBRACE == "}"
LBRACK == "["
RBRACK == "]"
LPAREN == "("
RPAREN == ")"
QUOTE  == "\""
APOS   == "'"
COLON  == ":"
COMMA  == ","
SP     == " "
NL     == "\n"

Whitespace == {SP, NL}

\* The digits and literals json.loads reads as a number or as null.
NumberSymbols == {"5"}
NullSymbol == "null"

----------------------------------------------------------------------------
(* Python values *)

PyNone == [t |-> "none"]
PyStr(s) == [t |-> "str", s |-> s]
PyNum(a) == [t |-> "num", n |-> a]
PyDict(members) == [t |-> "dict", members |-> members]
PyList(items) == [t |-> "list", items |-> items]

IsStr(x) == x.t = "str"

\* bool(x) as `if x:` computes it.
Truthy(x) ==
    CASE x.t = "none" -> FALSE
      [] x.t = "str"  -> x.s # <<>>
      [] x.t = "num"  -> x.n # "0"
      [] x.t = "dict" -> x.members # <<>>
      [] x.t = "list" -> x.items # <<>>

----------------------------------------------------------------------------
(* str operations *)

\* s[i:] and s[:i] with 1-based i.
From(s, i) == SubSeq(s, i, Len(s))
Upto(s, i) == SubSeq(s, 1, i)

MatchesAt(s, sub, i) ==
    /\ i >= 1
    /\ i + Len(sub) - 1 <= Len(s)
    /\ SubSeq(s, i, i + Len(sub) - 1) = sub

\* The positions where sub occurs in s.
Occurrences(s, sub) == {i \in 1..(Len(s) + 1) : MatchesAt(s, sub, i)}

\* sub in s
Contains(s, sub) == Occurrences(s, sub) # {}

Min(S) == CHOOSE x \in S : \A y \in S : x <= y
Max(S) == CHOOSE x \in S : \A y \in S : x >= y

StartsWith(s, sub) == MatchesAt(s, sub, 1)
EndsWith(s, sub) == MatchesAt(s, sub, Len(s) - Len(sub) + 1)

\* s.split(sub, 1)[1], for s that contains sub.
AfterFirst(s, sub) == From(s, Min(Occurrences(s, sub)) + Len(sub))

\* s.rsplit(sub, 1)[0]: s itself when sub does not occur.
BeforeLast(s, sub) ==
    IF Contains(s, sub) THEN Upto(s, Max(Occurrences(s, sub)) - 1) ELSE s

RECURSIVE LStrip(_, _)
LStrip(s, chars) ==
    IF s # <<>> /\ Head(s) \in chars THEN LStrip(Tail(s), chars) ELSE s

RECURSIVE RStrip(_, _)
RStrip(s, chars) ==
    IF s # <<>> /\ s[Len(s)] \in chars
    THEN RStrip(Upto(s, Len(s) - 1), chars)
    ELSE s

\* s.strip()
Strip(s) == RStrip(LStrip(s, Whitespace), Whitespace)

RECURSIVE Concat(_)
Concat(ss) == IF ss = <<>> THEN <<>> ELSE Head(ss) \o Concat(Tail(ss))

\* sep.join(parts)
RECURSIVE Join(_, _)
Join(sep, parts) ==
    IF parts = <<>> THEN <<>>
    ELSE IF Len(parts) = 1 THEN parts[1]
    ELSE parts[1] \o sep \o Join(sep, Tail(parts))

----------------------------------------------------------------------------
(* json.loads on the symbols of a str *)

At(s, i) == IF i \in 1..Len(s) THEN s[i] ELSE ""

RECURSIVE SkipWs(_, _)
SkipWs(s, i) == IF At(s, i) \in Whitespace THEN SkipWs(s, i + 1) ELSE i

JsonFail == [ok |-> FALSE, val |-> PyNone, next |-> 0]
JsonOk(v, n) == [ok |-> TRUE, val |-> v, next |-> n]

\* d[k] = v on the (key, value) list of a dict: a repeated key keeps its place.
DictSet(members, k, v) ==
    IF \E j \in 1..Len(members) : members[j].k = k
    THEN [j \in 1..Len(members) |->
            IF members[j].k = k THEN [k |-> k, val |-> v] ELSE members[j]]
    ELSE Append(members, [k |-> k, val |-> v])

DictHas(d, k) == \E j \in 1..Len(d.members) : d.members[j].k = k

\* d.get(k, default)
DictGet(d, k, default) ==
    IF DictHas(d, k)
    THEN d.members[CHOOSE j \in 1..Len(d.members) : d.members[j].k = k].val
    ELSE default

\* A string literal at s[i] = QUOTE: up to the next QUOTE; a raw control
\* character inside it is refused.
ParseString(s, i) ==
    LET closing == {j \in (i + 1)..Len(s) : s[j] = QUOTE} IN
    IF closing = {} THEN JsonFail
    ELSE LET j == Min(closing)
             inner == SubSeq(s, i + 1, j - 1)
         IN IF \E n \in 1..Len(inner) : inner[n] = NL
            THEN JsonFail
            ELSE JsonOk(PyStr(inner), j + 1)

RECURSIVE ParseValue(_, _)
RECURSIVE ParseMembers(_, _, _)
RECURSIVE ParseElements(_, _, _)

\* The members of an object, s[i] being where a key must start.
ParseMembers(s, i, acc) ==
    IF At(s, i) # QUOTE THEN JsonFail
    ELSE LET key == ParseString(s, i) IN
      IF ~key.ok THEN JsonFail
      ELSE LET c == SkipWs(s, key.next) IN
        IF At(s, c) # COLON THEN JsonFail
        ELSE LET val == ParseValue(s, SkipWs(s, c + 1)) IN
          IF ~val.ok THEN JsonFail
          ELSE LET e == SkipWs(s, val.next)
                   acc2 == DictSet(acc, key.val.s, val.val)
               IN IF At(s, e) = RBRACE THEN JsonOk(PyDict(acc2), e + 1)
                  ELSE IF At(s, e) = COMMA
                       THEN ParseMembers(s, SkipWs(s, e + 1), acc2)
                       ELSE JsonFail

\* The elements of an array, s[i] being where a value must start.
ParseElements(s, i, acc) ==
    LET val == ParseValue(s, i) IN
    IF ~val.ok THEN JsonFail
    ELSE LET e == SkipWs(s, val.next)
             acc2 == Append(acc, val.val)
         IN IF At(s, e) = RBRACK THEN JsonOk(PyList(acc2), e + 1)
            ELSE IF At(s, e) = COMMA
                 THEN ParseElements(s, SkipWs(s, e + 1), acc2)
                 ELSE JsonFail

ParseValue(s, i) ==
    LET a == At(s, i) IN
    CASE a = QUOTE -> ParseString(s, i)
      [] a = LBRACE ->
            LET k == SkipWs(s, i + 1) IN
            IF At(s, k) = RBRACE THEN JsonOk(PyDict(<<>>), k + 1)
            ELSE ParseMembers(s, k, <<>>)
      [] a = LBRACK ->
            LET k == SkipWs(s, i + 1) IN
            IF At(s, k) = RBRACK THEN JsonOk(PyList(<<>>), k + 1)
            ELSE ParseElements(s, k, <<>>)
      [] a \in NumberSymbols -> JsonOk(PyNum(a), i + 1)
      [] a = NullSymbol -> JsonOk(PyNone, i + 1)
      [] OTHER -> JsonFail

\* json.loads(s): ok = FALSE stands for json.JSONDecodeError.  Text after the
\* value ("Extra data") is refused.
JsonLoads(s) ==
    LET r == ParseValue(s, SkipWs(s, 1)) IN
    IF r.ok /\ SkipWs(s, r.next) = Len(s) + 1 THEN r ELSE JsonFail

----------------------------------------------------------------------------
(* Exceptions.  An exception is its class and its str(). *)

Exc(cls, s) == [cls |-> cls, str |-> s]

\* isinstance(error, ValueError)
IsValueError(error) == error.cls = "ValueError"

\* The substrings parse_poe_error looks for.
ERROR_ID_MARK  == <<"error_id", COLON>>
BOTERROR_OPEN  == <<"BotError", LPAREN, APOS>>
BOTERROR_CLOSE == <<APOS, RPAREN>>
MODEL_MARK     == <<"Model">>
ISE_MARK       == <<"Internal server error">>
TEXT_KEY       == <<"text">>

\* `needle in x` for a str needle: a substring test on a str, a key test on a
\* dict, an element test on a list, and a TypeError on None and on a number.
PyIn(needle, x) ==
    CASE x.t = "str"  -> IF Contains(x.s, needle) THEN "True" ELSE "False"
      [] x.t = "dict" -> IF DictHas(x, needle) THEN "True" ELSE "False"
      [] x.t = "list" ->
            IF \E j \in 1..Len(x.items) : x.items[j] = PyStr(needle)
            THEN "True" ELSE "False"
      [] OTHER -> "TypeError"

ParseResult(m, d, t, i) ==
    [error_message |-> m, error_data |-> d, error_type |-> t, error_id |-> i]

\* parse_poe_error from "Extract error_id if available" to the return, with
\* the message, data and type the extraction cases left.
ExtractIdAndClassify(error, error_str, error_message, error_data, error_type) ==
    LET has_id == PyIn(ERROR_ID_MARK, error_message) IN
    IF has_id = "TypeError"
    THEN \* caught by the outer `except Exception`: the rest of the try is skipped
         ParseResult(error_message, error_data, error_type, PyNone)
    ELSE LET error_id ==
                 IF has_id = "True" /\ IsStr(error_message)
                 THEN PyStr(RStrip(Strip(AfterFirst(error_message.s,
                                                    ERROR_ID_MARK)),
                                   {RPAREN}))
                 ELSE \* no marker, or .split on a non-str swallowed by the
                      \* inner `except Exception`
                      PyNone
             final_type ==
                 IF IsValueError(error) /\ Contains(error_str, MODEL_MARK)
                 THEN "model_not_found"
                 ELSE IF PyIn(ISE_MARK, error_message) = "True"
                      THEN "poe_server_error"
                      ELSE error_type
         IN ParseResult(error_message, error_data, final_type, error_id)

\* A variant of parse_poe_error without its except clauses: the exception
\* of a payload that does not parse leaves the function.
Mutant_parse_poe_error(error) ==
    IF StartsWith(error.str, <<LBRACE>>) /\ EndsWith(error.str, <<RBRACE>>)
       /\ ~JsonLoads(error.str).ok
    THEN Exc("JSONDecodeError", error.str)
    ELSE ExtractIdAndClassify(error, error.str, PyStr(error.str), PyNone,
                              "server_error")

\* A variant of parse_poe_error that looks for the BotError marker first.
Mutant_ExtractionOrder(error) ==
    LET error_str == error.str
        original == PyStr(error_str)
        json_part == BeforeLast(AfterFirst(error_str, BOTERROR_OPEN),
                                BOTERROR_CLOSE)
        wrapped == Contains(error_str, BOTERROR_OPEN)
                   /\ Contains(error_str, BOTERROR_CLOSE)
        r == IF wrapped THEN JsonLoads(json_part) ELSE JsonLoads(error_str)
    IN
    IF wrapped \/ (StartsWith(error_str, <<LBRACE>>)
                   /\ EndsWith(error_str, <<RBRACE>>))
    THEN IF ~r.ok
         THEN ExtractIdAndClassify(error, error_str, original, PyNone,
                                   "server_error")
         ELSE IF r.val.t # "dict"
         THEN ParseResult(original, r.val, "server_error", PyNone)
         ELSE ExtractIdAndClassify(error, error_str,
                                   DictGet(r.val, TEXT_KEY, original),
                                   r.val, "poe_api_error")
    ELSE ExtractIdAndClassify(error, error_str, original, PyNone,
                              "server_error")

\* parse_poe_error(error)
parse_poe_error(error) ==
    LET error_str == error.str
        original == PyStr(error_str)
    IN
    IF StartsWith(error_str, <<LBRACE>>) /\ EndsWith(error_str, <<RBRACE>>)
    THEN \* Case 1
         LET r == JsonLoads(error_str) IN
         IF ~r.ok
         THEN \* json.JSONDecodeError leaves the try
              ParseResult(original, PyNone, "server_error", PyNone)
         ELSE IF r.val.t # "dict"
         THEN ParseResult(original, r.val, "server_error", PyNone)
         ELSE ExtractIdAndClassify(error, error_str,
                                   DictGet(r.val, TEXT_KEY, original),
                                   r.val, "poe_api_error")
    ELSE IF Contains(error_str, BOTERROR_OPEN)
            /\ Contains(error_str, BOTERROR_CLOSE)
    THEN \* Case 2
         LET json_part == BeforeLast(AfterFirst(error_str, BOTERROR_OPEN),
                                     BOTERROR_CLOSE)
             r == JsonLoads(json_part)
         IN
         IF ~r.ok
         THEN \* the inner `except json.JSONDecodeError: pass`
              ExtractIdAndClassify(error, error_str, original, PyNone,
                                   "server_error")
         ELSE IF r.val.t # "dict"
         THEN \* error_data is assigned, then .get raises AttributeError,
              \* which leaves the try
              ParseResult(original, r.val, "server_error", PyNone)
         ELSE ExtractIdAndClassify(error, error_str,
                                   DictGet(r.val, TEXT_KEY, original),
                                   r.val, "poe_api_error")
    ELSE ExtractIdAndClassify(error, error_str, original, PyNone,
                              "server_error")

----------------------------------------------------------------------------
(* The faults the upstream client is modelled to raise *)

JStr(s) == <<QUOTE>> \o s \o <<QUOTE>>
JMember(k, v) == JStr(k) \o <<COLON, SP>> \o v
JObj(members) == <<LBRACE>> \o Join(<<COMMA, SP>>, members) \o <<RBRACE>>
Wrapped(payload) == BOTERROR_OPEN \o payload \o BOTERROR_CLOSE

T_NoAccess == <<"no access">>
T_Ise      == <<"Internal server error">>
T_WithId   == <<"boom", SP, LPAREN, "error_id", COLON, SP, "abc123", RPAREN>>
T_Model    == <<"Model", SP, "x", SP, "not found">>

Texts == {T_NoAccess, T_Ise, T_WithId, T_Model}

\* The values a "text" member is given: strings, a number, null.
TextValues == {JStr(t) : t \in Texts} \cup {<<"5">>, <<NullSymbol>>}

IdMember == JMember(<<"error_id">>, JStr(<<"abc123">>))

JsonObjects ==
    {JObj(<<JMember(TEXT_KEY, v)>>) : v \in TextValues}
    \cup {JObj(<<JMember(TEXT_KEY, v), IdMember>>) : v \in TextValues}
    \cup {JObj(<<IdMember>>), JObj(<<>>)}

\* Braces around text that is no JSON.
Malformed == {<<LBRACE>> \o t \o <<RBRACE>> : t \in Texts}

Payloads == JsonObjects \cup Malformed \cup {<<LBRACK, "5", RBRACK>>}

\* A JSON object whose text holds the BotError marker around "{}".
MarkedObject == JObj(<<JMember(TEXT_KEY, JStr(Wrapped(<<LBRACE, RBRACE>>)))>>)

\* Braces around a wrapped payload, as a dict's repr has them: no JSON.
BracedWrapped ==
    <<LBRACE>> \o Wrapped(JObj(<<JMember(TEXT_KEY, JStr(T_NoAccess))>>))
               \o <<RBRACE>>

FaultStrings ==
    Texts \cup JsonObjects \cup Malformed \cup {Wrapped(p) : p \in Payloads}
          \cup {MarkedObject, BracedWrapped}

ExceptionClasses == {"ValueError", "BotError", "Exception"}

Faults == {Exc(c, s) : c \in ExceptionClasses, s \in FaultStrings}

----------------------------------------------------------------------------
(* Bounds of the model *)

\* The upstream events of one bot response.
MaxEvents == 3

----------------------------------------------------------------------------
(* normalize_model, normalize_role *)

normalize_model(m) == Strip(m)

\* Mutant: the assistant role is passed on as it came.
Mutant_normalize_role(role) ==
    IF role = "user" THEN "user"
    ELSE IF role = "system" THEN "system"
    ELSE role

normalize_role(role) ==
    IF role = "user" THEN "user"
    ELSE IF role = "assistant" THEN "bot"
    ELSE IF role = "system" THEN "system"
    ELSE role

----------------------------------------------------------------------------
(* Token accounting *)

\* encoding.encode(text) of the cl100k_base encoding, reduced to a byte-pair
\* encoding with the single merge ("a", "b"): every symbol is a token, and an
\* "a" followed by a "b" is one token.  Like the real encoding it is
\* deterministic, gives no token for the empty text, and is not additive over
\* concatenation.
RECURSIVE Cl100kEncode(_)
Cl100kEncode(text) ==
    IF text = <<>> THEN <<>>
    ELSE IF Len(text) >= 2 /\ text[1] = "a" /\ text[2] = "b"
         THEN <<"ab">> \o Cl100kEncode(Tail(Tail(text)))
         ELSE <<Head(text)>> \o Cl100kEncode(Tail(text))

\* count_tokens(text): the except branch is taken when tiktoken fails.
count_tokens(text) ==
    IF tiktoken_ok THEN Len(Cl100kEncode(text)) ELSE Len(text) \div 4

ProtocolMessage(role, content) == [role |-> role, content |-> content]

Counts(p, c, t) ==
    [prompt_tokens |-> p, completion_tokens |-> c, total_tokens |-> t]

\* The loop of count_message_tokens: (prompt_tokens, completion_tokens)
\* after the messages msgs.
RECURSIVE SumMessageTokens(_)
SumMessageTokens(msgs) ==
    IF msgs = <<>> THEN <<0, 0>>
    ELSE LET msg == msgs[Len(msgs)]
             before == SumMessageTokens(Upto(msgs, Len(msgs) - 1))
             token_count == count_tokens(msg.content)
         IN IF msg.role = "bot" \/ msg.role = "assistant"
            THEN <<before[1], before[2] + token_count>>
            ELSE <<before[1] + token_count, before[2]>>

\* Mutant: the overhead of 3 is not added.
Mutant_count_message_tokens(msgs) ==
    LET sums == SumMessageTokens(msgs)
    IN Counts(sums[1], sums[2], sums[1] + sums[2])

\* count_message_tokens(messages)
count_message_tokens(msgs) ==
    LET sums == SumMessageTokens(msgs)
        prompt_tokens == sums[1] + 3
        completion_tokens == sums[2]
    IN Counts(prompt_tokens, completion_tokens,
              prompt_tokens + completion_tokens)

\* Mutant: total_tokens is not stored again.
Mutant_Recount(counts, buffer) ==
    [counts EXCEPT !.completion_tokens = count_tokens(buffer)]

\* The three assignments that follow every loop and open every error path:
\* completion_tokens = count_tokens(buffer), then the two dict stores.
Recount(counts, buffer) ==
    LET completion_tokens == count_tokens(buffer) IN
    [counts EXCEPT !.completion_tokens = completion_tokens,
                   !.total_tokens = counts.prompt_tokens + completion_tokens]

----------------------------------------------------------------------------
(* Upstream events (fp.PartialResponse) *)

NoAttachment == [t |-> "none"]
Attachment(url, name) == [t |-> "Attachment", url |-> url, name |-> name]

\* `if message.attachment:`
HasAttachment(message) == message.attachment.t # "none"

Event(text, is_replace, attachment) ==
    [text |-> text, is_replace_response |-> is_replace,
     attachment |-> attachment]

FILE_URL == <<"https://cdn/f1">>

\* The events a response is made of: plain deltas, a delta that replaces what
\* came before, a delta with a file, an empty delta, an empty replacement.
Events ==
    { Event(<<"a">>, FALSE, NoAttachment),
      Event(<<"b">>, FALSE, NoAttachment),
      Event(<<"b">>, TRUE, NoAttachment),
      Event(<<"a">>, FALSE, Attachment(FILE_URL, <<"f1">>)),
      Event(<<>>, FALSE, NoAttachment),
      Event(<<>>, TRUE, NoAttachment) }

\* The faults the upstream raises in the middle of a response.
StreamFaults ==
    { Exc("Exception", T_WithId),
      Exc("BotError", JObj(<<JMember(TEXT_KEY, JStr(T_NoAccess)), IdMember>>)),
      Exc("ValueError", T_Model) }

\* Mutant: a replace event does not reset the buffer.
Mutant_ResetOnReplace(is_replace_response, buffer) == buffer

\* `if is_replace_response: accumulated_response = ""`: the buffer the
\* event's text is then appended to.
ResetOnReplace(is_replace_response, buffer) ==
    IF is_replace_response THEN <<>> ELSE buffer

\* message.text, plus "\n" and the attachment's URL when there is one.
MessageText(message) ==
    IF HasAttachment(message)
    THEN message.text \o <<NL>> \o message.attachment.url
    ELSE message.text

----------------------------------------------------------------------------
(* Chunk formatter.  The random id and the timestamp of a chunk are left   *)
(* out; the prefix of the id is kept.                                       *)

STOP == PyStr(<<"stop">>)

\* create_stream_chunk
create_stream_chunk(message_text, mdl, fmt, is_first_chunk, is_replace) ==
    IF fmt = "completion"
    THEN [id |-> "cmpl-", object |-> "text_completion", model |-> mdl,
          choices |-> <<[text |-> message_text, index |-> 0,
                         logprobs |-> PyNone, finish_reason |-> PyNone]>>]
    ELSE IF fmt = "chat"
    THEN [id |-> "chatcmpl-", object |-> "chat.completion.chunk",
          model |-> mdl,
          choices |-> <<[index |-> 0,
                         delta |-> IF is_first_chunk
                                   THEN [role |-> "assistant",
                                         content |-> message_text]
                                   ELSE [content |-> message_text],
                         finish_reason |-> PyNone, logprobs |-> PyNone]>>]
    ELSE [response |-> message_text, done |-> FALSE, is_replace |-> is_replace]

\* `if token_counts:` on a dict
DictTruthy(d) == DOMAIN d # {}

\* create_final_chunk
create_final_chunk(mdl, fmt, counts) ==
    LET result ==
            IF fmt = "completion"
            THEN [id |-> "cmpl-", object |-> "text_completion", model |-> mdl,
                  choices |-> <<[text |-> <<>>, index |-> 0,
                                 logprobs |-> PyNone, finish_reason |-> STOP]>>]
            ELSE IF fmt = "chat"
            THEN [id |-> "chatcmpl-", object |-> "chat.completion.chunk",
                  model |-> mdl,
                  choices |-> <<[index |-> 0, logprobs |-> PyNone,
                                 delta |-> <<>>, finish_reason |-> STOP]>>]
            ELSE [response |-> <<>>, done |-> TRUE]
    IN IF DictTruthy(counts) THEN result @@ [usage |-> counts] ELSE result

\* f"data: {json.dumps(chunk)}\n\n" and b"data: [DONE]\n\n"
Sse(chunk) == [data |-> "json", json |-> chunk]
DONE == [data |-> "[DONE]"]

IsDone(frame) == frame.data = "[DONE]"
IsJson(frame) == frame.data = "json"

\* The except block of the three generators after parse_poe_error: the
\* counters, recomputed when text has accumulated, and the error payload.
ErrorCounts(counts, buffer) ==
    IF buffer # <<>> THEN Recount(counts, buffer) ELSE counts

\* Mutant: the counters are attached whether or not text has accumulated.
Mutant_ErrorPayload(p, counts, buffer) ==
    [error |-> [message |-> p.error_message, type |-> p.error_type,
                code |-> p.error_type],
     usage |-> ErrorCounts(counts, buffer)]

ErrorPayload(p, counts, buffer) ==
    LET base == [message |-> p.error_message, type |-> p.error_type,
                 code |-> p.error_type]
        error == IF Truthy(p.error_id)
                 THEN base @@ [error_id |-> p.error_id]
                 ELSE base
    IN IF buffer # <<>>
       THEN [error |-> error, usage |-> ErrorCounts(counts, buffer)]
       ELSE [error |-> error]

\* Mutant: the sentinel is sent for the completion dialect only.
Mutant_WantsSentinel(fmt) == fmt = "completion"

\* `if format_type in ["completion", "chat"]`
WantsSentinel(fmt) == fmt \in {"completion", "chat"}

----------------------------------------------------------------------------
(* Calls of the generators and accumulators: inputs and idle values *)

Formats == {"chat", "completion", "poe"}

\* (function, format_type): stream_response and stream_response_with_replace
\* take the format as an argument, the others fix it.
Calls ==
    {<<"stream_response_with_replace", f>> : f \in Formats}
    \cup {<<"stream_response", f>> : f \in Formats}
    \cup {<<"stream_completions_format_with_files", "completion">>,
          <<"generate_poe_bot_response_with_files", "none">>,
          <<"generate_poe_bot_response", "none">>}

ModelArgs == {<<SP, "GPT-4o", SP>>}

MessageLists ==
    { <<ProtocolMessage("user", <<"a", "b">>)>>,
      <<ProtocolMessage("system", <<"b">>), ProtocolMessage("user", <<"a">>),
        ProtocolMessage("bot", <<"a", "b", "a">>),
        ProtocolMessage("user", <<"b", "a", "b", "a", "b">>)>> }

\* No second call.
NoFrame == [fn |-> "none"]

NoFault == Exc("none", <<>>)
NoParse == ParseResult(PyNone, PyNone, "", PyNone)
NoCounts == Counts(0, 0, 0)
NoResponse == [role |-> "", content |-> <<>>]

ErrIdle == epc = "unused" /\ fault = NoFault /\ parsed = NoParse

GenIdle ==
    /\ fn = "none" /\ format_type = "none" /\ model_arg = <<>>
    /\ messages = <<>> /\ pc = "unused" /\ model = <<>> /\ consumed = <<>>
    /\ first_chunk = FALSE /\ accumulated_response = <<>>
    /\ token_counts = NoCounts /\ out = <<>> /\ received_files = <<>>
    /\ response = NoResponse /\ raised = NoFault

NoReply == [kind |-> "none"]
NoRequest == [kind |-> "none"]

ConvIdle ==
    /\ content_arg = <<>> /\ uploads = <<>> /\ cpc = "unused"
    /\ text_parts = <<>> /\ attachments = <<>> /\ converted = <<>>

HttpIdle ==
    /\ endpoint = "none" /\ request = NoRequest /\ hpc = "unused"
    /\ reply = NoReply

ImgIdle ==
    /\ img_messages = <<>> /\ num_images = 0 /\ attempt = 0
    /\ file_result = NoAttachment /\ data = <<>>
    /\ successful_generations = 0 /\ outcomes = <<>>

RestIdle == ConvIdle /\ HttpIdle /\ ImgIdle

\* str() of a value inside an f-string.
PyFormat(x) ==
    CASE x.t = "str"  -> x.s
      [] x.t = "none" -> <<"None">>
      [] x.t = "num"  -> <<x.n>>

\* PoeAPIError(message, error_data=..., error_id=...): status_code keeps its
\* default.
DEFAULT_STATUS == 500

PoeAPIError(message, error_data, error_id) ==
    [cls |-> "PoeAPIError", str |-> message, message |-> message,
     error_data |-> error_data, status_code |-> DEFAULT_STATUS,
     error_id |-> error_id]

InitGen ==
    /\ tiktoken_ok \in BOOLEAN
    /\ suspended = NoFrame
    /\ \E c \in Calls : fn = c[1] /\ format_type = c[2]
    /\ model_arg \in ModelArgs
    /\ messages \in MessageLists
    /\ pc = "called"
    /\ model = <<>> /\ consumed = <<>> /\ first_chunk = FALSE
    /\ accumulated_response = <<>> /\ token_counts = NoCounts
    /\ out = <<>> /\ received_files = <<>> /\ response = NoResponse
    /\ raised = NoFault
    /\ ErrIdle
    /\ RestIdle

----------------------------------------------------------------------------
(* stream_response_with_replace *)

\* Lines 779-784: up to the first request of an upstream event.
SRWR_Begin ==
    /\ fn = "stream_response_with_replace" /\ pc = "called"
    /\ model' = normalize_model(model_arg)
    /\ first_chunk' = TRUE
    /\ accumulated_response' = <<>>
    /\ token_counts' = count_message_tokens(messages)
    /\ pc' = "await"
    /\ UNCHANGED <<tiktoken_ok, suspended, fn, format_type, model_arg,
                   messages,
                   consumed, out, received_files, response, raised, err_vars,
                   rest_vars>>

\* Mutant: an event without text yields no chunk.
Mutant_SRWR_OnEvent(message) ==
    /\ fn = "stream_response_with_replace" /\ pc = "await"
    /\ Len(consumed) < MaxEvents
    /\ LET is_replace_response == message.is_replace_response
           kept == ResetOnReplace(is_replace_response, accumulated_response)
           message_text == MessageText(message)
           chunk == create_stream_chunk(message_text, model, format_type,
                                        first_chunk, is_replace_response)
       IN /\ accumulated_response' = kept \o message_text
          /\ IF message_text = <<>>
             THEN out' = out /\ pc' = "await"
             ELSE out' = Append(out, Sse(chunk)) /\ pc' = "yielded"
    /\ consumed' = Append(consumed, message)
    /\ UNCHANGED <<tiktoken_ok, suspended, fn, format_type, model_arg,
                   messages, model,
                   first_chunk, token_counts, received_files, response,
                   raised, err_vars,
                   rest_vars>>

\* The loop body up to its yield, for the upstream event `message`.
SRWR_OnEvent(message) ==
    /\ fn = "stream_response_with_replace" /\ pc = "await"
    /\ Len(consumed) < MaxEvents
    /\ LET is_replace_response == message.is_replace_response
           kept == ResetOnReplace(is_replace_response, accumulated_response)
           message_text == MessageText(message)
           chunk == create_stream_chunk(message_text, model, format_type,
                                        first_chunk, is_replace_response)
       IN /\ accumulated_response' = kept \o message_text
          /\ out' = Append(out, Sse(chunk))
    /\ consumed' = Append(consumed, message)
    /\ pc' = "yielded"
    /\ UNCHANGED <<tiktoken_ok, suspended, fn, format_type, model_arg,
                   messages, model,
                   first_chunk, token_counts, received_files, response,
                   raised, err_vars,
                   rest_vars>>

\* Mutant: first_chunk is not cleared after the yield.
Mutant_SRWR_Resume ==
    /\ fn = "stream_response_with_replace" /\ pc = "yielded"
    /\ pc' = "await"
    /\ UNCHANGED <<tiktoken_ok, suspended, fn, format_type, model_arg,
                   messages, model,
                   consumed, first_chunk, accumulated_response, token_counts,
                   out, received_files, response, raised, err_vars,
                   rest_vars>>

\* After the yield: first_chunk = False, sleep(0), and the next event is
\* requested.
SRWR_Resume ==
    /\ fn = "stream_response_with_replace" /\ pc = "yielded"
    /\ first_chunk' = FALSE
    /\ pc' = "await"
    /\ UNCHANGED <<tiktoken_ok, suspended, fn, format_type, model_arg,
                   messages, model,
                   consumed, accumulated_response, token_counts, out,
                   received_files, response, raised, err_vars,
                   rest_vars>>

\* The counts of the texts of the events evs, one count per event, added up.
RECURSIVE SumOfDeltaCounts(_)
SumOfDeltaCounts(evs) ==
    IF evs = <<>> THEN 0
    ELSE SumOfDeltaCounts(Upto(evs, Len(evs) - 1))
         + count_tokens(MessageText(evs[Len(evs)]))

\* Mutant: completion_tokens is the sum of the counts of the deltas.
Mutant_SRWR_OnEnd ==
    /\ fn = "stream_response_with_replace" /\ pc = "await"
    /\ LET completion_tokens == SumOfDeltaCounts(consumed) IN
       token_counts' =
           [token_counts EXCEPT
              !.completion_tokens = completion_tokens,
              !.total_tokens = token_counts.prompt_tokens + completion_tokens]
    /\ out' = Append(out, Sse(create_final_chunk(model, format_type,
                                                  token_counts')))
    /\ pc' = "yielded_final"
    /\ UNCHANGED <<tiktoken_ok, suspended, fn, format_type, model_arg,
                   messages, model,
                   consumed, first_chunk, accumulated_response,
                   received_files, response, raised, err_vars,
                   rest_vars>>

\* The upstream is exhausted: the counters and the final chunk.
SRWR_OnEnd ==
    /\ fn = "stream_response_with_replace" /\ pc = "await"
    /\ token_counts' = Recount(token_counts, accumulated_response)
    /\ out' = Append(out, Sse(create_final_chunk(model, format_type,
                                                  token_counts')))
    /\ pc' = "yielded_final"
    /\ UNCHANGED <<tiktoken_ok, suspended, fn, format_type, model_arg,
                   messages, model,
                   consumed, first_chunk, accumulated_response,
                   received_files, response, raised, err_vars,
                   rest_vars>>

\* Mutant: the fault is not caught.
Mutant_SRWR_OnFail(e) ==
    /\ fn = "stream_response_with_replace" /\ pc = "await"
    /\ fault' = e
    /\ raised' = e
    /\ pc' = "raised"
    /\ UNCHANGED <<tiktoken_ok, suspended, fn, format_type, model_arg,
                   messages, model,
                   consumed, first_chunk, accumulated_response, token_counts,
                   out, received_files, response, epc, parsed, rest_vars>>

\* The upstream raises `e`: the except block up to its first yield.
SRWR_OnFail(e) ==
    /\ fn = "stream_response_with_replace" /\ pc = "await"
    /\ fault' = e
    /\ parsed' = parse_poe_error(e)
    /\ token_counts' = ErrorCounts(token_counts, accumulated_response)
    /\ out' = Append(out, Sse(ErrorPayload(parsed', token_counts,
                                           accumulated_response)))
    /\ pc' = "yielded_error"
    /\ UNCHANGED <<tiktoken_ok, suspended, fn, format_type, model_arg,
                   messages, model,
                   consumed, first_chunk, accumulated_response,
                   received_files, response, raised, epc,
                   rest_vars>>

\* Mutant: the sentinel follows the final chunk only, not the error event.
Mutant_SRWR_Sentinel ==
    /\ fn = "stream_response_with_replace"
    /\ pc \in {"yielded_final", "yielded_error"}
    /\ IF WantsSentinel(format_type) /\ pc = "yielded_final"
       THEN out' = Append(out, DONE) /\ pc' = "yielded_done"
       ELSE out' = out /\ pc' = "returned"
    /\ UNCHANGED <<tiktoken_ok, suspended, fn, format_type, model_arg,
                   messages, model,
                   consumed, first_chunk, accumulated_response, token_counts,
                   received_files, response, raised, err_vars,
                   rest_vars>>

\* After the final chunk or the error event: the sentinel, or the end.
SRWR_Sentinel ==
    /\ fn = "stream_response_with_replace"
    /\ pc \in {"yielded_final", "yielded_error"}
    /\ IF WantsSentinel(format_type)
       THEN out' = Append(out, DONE) /\ pc' = "yielded_done"
       ELSE out' = out /\ pc' = "returned"
    /\ UNCHANGED <<tiktoken_ok, suspended, fn, format_type, model_arg,
                   messages, model,
                   consumed, first_chunk, accumulated_response, token_counts,
                   received_files, response, raised, err_vars,
                   rest_vars>>

SRWR_Return ==
    /\ fn = "stream_response_with_replace" /\ pc = "yielded_done"
    /\ pc' = "returned"
    /\ UNCHANGED <<tiktoken_ok, suspended, fn, format_type, model_arg,
                   messages, model,
                   consumed, first_chunk, accumulated_response, token_counts,
                   out, received_files, response, raised, err_vars,
                   rest_vars>>

stream_response_with_replace ==
    \/ SRWR_Begin
    \/ \E message \in Events : SRWR_OnEvent(message)
    \/ SRWR_Resume
    \/ SRWR_OnEnd
    \/ \E e \in StreamFaults : SRWR_OnFail(e)
    \/ SRWR_Sentinel
    \/ SRWR_Return

----------------------------------------------------------------------------
(* stream_response *)

SR_Begin ==
    /\ fn = "stream_response" /\ pc = "called"
    /\ model' = normalize_model(model_arg)
    /\ first_chunk' = TRUE
    /\ accumulated_response' = <<>>
    /\ token_counts' = count_message_tokens(messages)
    /\ pc' = "await"
    /\ UNCHANGED <<tiktoken_ok, suspended, fn, format_type, model_arg,
                   messages,
                   consumed, out, received_files, response, raised, err_vars,
                   rest_vars>>

\* The loop body up to its yield: the chunk and the buffer take message.text.
SR_OnEvent(message) ==
    /\ fn = "stream_response" /\ pc = "await"
    /\ Len(consumed) < MaxEvents
    /\ LET chunk == create_stream_chunk(message.text, model, format_type,
                                        first_chunk, FALSE)
       IN out' = Append(out, Sse(chunk))
    /\ accumulated_response' = accumulated_response \o message.text
    /\ consumed' = Append(consumed, message)
    /\ pc' = "yielded"
    /\ UNCHANGED <<tiktoken_ok, suspended, fn, format_type, model_arg,
                   messages, model,
                   first_chunk, token_counts, received_files, response,
                   raised, err_vars,
                   rest_vars>>

SR_Resume ==
    /\ fn = "stream_response" /\ pc = "yielded"
    /\ first_chunk' = FALSE
    /\ pc' = "await"
    /\ UNCHANGED <<tiktoken_ok, suspended, fn, format_type, model_arg,
                   messages, model,
                   consumed, accumulated_response, token_counts, out,
                   received_files, response, raised, err_vars,
                   rest_vars>>

SR_OnEnd ==
    /\ fn = "stream_response" /\ pc = "await"
    /\ token_counts' = Recount(token_counts, accumulated_response)
    /\ out' = Append(out, Sse(create_final_chunk(model, format_type,
                                                  token_counts')))
    /\ pc' = "yielded_final"
    /\ UNCHANGED <<tiktoken_ok, suspended, fn, format_type, model_arg,
                   messages, model,
                   consumed, first_chunk, accumulated_response,
                   received_files, response, raised, err_vars,
                   rest_vars>>

\* Mutant: the final chunk follows the error event, as from a finally block.
Mutant_SR_OnFail(e) ==
    /\ fn = "stream_response" /\ pc = "await"
    /\ fault' = e
    /\ parsed' = parse_poe_error(e)
    /\ token_counts' = Recount(token_counts, accumulated_response)
    /\ out' = out \o <<Sse(ErrorPayload(parsed', token_counts,
                                         accumulated_response)),
                        Sse(create_final_chunk(model, format_type,
                                               token_counts'))>>
    /\ pc' = "yielded_error"
    /\ UNCHANGED <<tiktoken_ok, suspended, fn, format_type, model_arg,
                   messages, model, consumed, first_chunk,
                   accumulated_response, received_files, response, raised,
                   epc, rest_vars>>

SR_OnFail(e) ==
    /\ fn = "stream_response" /\ pc = "await"
    /\ fault' = e
    /\ parsed' = parse_poe_error(e)
    /\ token_counts' = ErrorCounts(token_counts, accumulated_response)
    /\ out' = Append(out, Sse(ErrorPayload(parsed', token_counts,
                                           accumulated_response)))
    /\ pc' = "yielded_error"
    /\ UNCHANGED <<tiktoken_ok, suspended, fn, format_type, model_arg,
                   messages, model,
                   consumed, first_chunk, accumulated_response,
                   received_files, response, raised, epc,
                   rest_vars>>

SR_Sentinel ==
    /\ fn = "stream_response"
    /\ pc \in {"yielded_final", "yielded_error"}
    /\ IF WantsSentinel(format_type)
       THEN out' = Append(out, DONE) /\ pc' = "yielded_done"
       ELSE out' = out /\ pc' = "returned"
    /\ UNCHANGED <<tiktoken_ok, suspended, fn, format_type, model_arg,
                   messages, model,
                   consumed, first_chunk, accumulated_response, token_counts,
                   received_files, response, raised, err_vars,
                   rest_vars>>

SR_Return ==
    /\ fn = "stream_response" /\ pc = "yielded_done"
    /\ pc' = "returned"
    /\ UNCHANGED <<tiktoken_ok, suspended, fn, format_type, model_arg,
                   messages, model,
                   consumed, first_chunk, accumulated_response, token_counts,
                   out, received_files, response, raised, err_vars,
                   rest_vars>>

stream_response ==
    \/ SR_Begin
    \/ \E message \in Events : SR_OnEvent(message)
    \/ SR_Resume
    \/ SR_OnEnd
    \/ \E e \in StreamFaults : SR_OnFail(e)
    \/ SR_Sentinel
    \/ SR_Return

----------------------------------------------------------------------------
(* stream_completions_format_with_files *)

SCF_Begin ==
    /\ fn = "stream_completions_format_with_files" /\ pc = "called"
    /\ model' = normalize_model(model_arg)
    /\ first_chunk' = TRUE
    /\ accumulated_response' = <<>>
    /\ token_counts' = count_message_tokens(messages)
    /\ pc' = "await"
    /\ UNCHANGED <<tiktoken_ok, suspended, fn, format_type, model_arg,
                   messages,
                   consumed, out, received_files, response, raised, err_vars,
                   rest_vars>>

\* The loop body up to its yield.  The event's is_replace_response is not
\* read.
SCF_OnEvent(message) ==
    /\ fn = "stream_completions_format_with_files" /\ pc = "await"
    /\ Len(consumed) < MaxEvents
    /\ LET message_text == MessageText(message)
           chunk == create_stream_chunk(message_text, model, "completion",
                                        first_chunk, FALSE)
       IN /\ accumulated_response' = accumulated_response \o message_text
          /\ out' = Append(out, Sse(chunk))
    /\ consumed' = Append(consumed, message)
    /\ pc' = "yielded"
    /\ UNCHANGED <<tiktoken_ok, suspended, fn, format_type, model_arg,
                   messages, model,
                   first_chunk, token_counts, received_files, response,
                   raised, err_vars,
                   rest_vars>>

SCF_Resume ==
    /\ fn = "stream_completions_format_with_files" /\ pc = "yielded"
    /\ first_chunk' = FALSE
    /\ pc' = "await"
    /\ UNCHANGED <<tiktoken_ok, suspended, fn, format_type, model_arg,
                   messages, model,
                   consumed, accumulated_response, token_counts, out,
                   received_files, response, raised, err_vars,
                   rest_vars>>

\* The final chunk is built with the literal "completion" as its model.
SCF_OnEnd ==
    /\ fn = "stream_completions_format_with_files" /\ pc = "await"
    /\ token_counts' = Recount(token_counts, accumulated_response)
    /\ out' = Append(out, Sse(create_final_chunk(<<"completion">>,
                                                  "completion",
                                                  token_counts')))
    /\ pc' = "yielded_final"
    /\ UNCHANGED <<tiktoken_ok, suspended, fn, format_type, model_arg,
                   messages, model,
                   consumed, first_chunk, accumulated_response,
                   received_files, response, raised, err_vars,
                   rest_vars>>

SCF_OnFail(e) ==
    /\ fn = "stream_completions_format_with_files" /\ pc = "await"
    /\ fault' = e
    /\ parsed' = parse_poe_error(e)
    /\ token_counts' = ErrorCounts(token_counts, accumulated_response)
    /\ out' = Append(out, Sse(ErrorPayload(parsed', token_counts,
                                           accumulated_response)))
    /\ pc' = "yielded_error"
    /\ UNCHANGED <<tiktoken_ok, suspended, fn, format_type, model_arg,
                   messages, model,
                   consumed, first_chunk, accumulated_response,
                   received_files, response, raised, epc,
                   rest_vars>>

\* The sentinel follows unconditionally.
SCF_Sentinel ==
    /\ fn = "stream_completions_format_with_files"
    /\ pc \in {"yielded_final", "yielded_error"}
    /\ out' = Append(out, DONE)
    /\ pc' = "yielded_done"
    /\ UNCHANGED <<tiktoken_ok, suspended, fn, format_type, model_arg,
                   messages, model,
                   consumed, first_chunk, accumulated_response, token_counts,
                   received_files, response, raised, err_vars,
                   rest_vars>>

SCF_Return ==
    /\ fn = "stream_completions_format_with_files" /\ pc = "yielded_done"
    /\ pc' = "returned"
    /\ UNCHANGED <<tiktoken_ok, suspended, fn, format_type, model_arg,
                   messages, model,
                   consumed, first_chunk, accumulated_response, token_counts,
                   out, received_files, response, raised, err_vars,
                   rest_vars>>

stream_completions_format_with_files ==
    \/ SCF_Begin
    \/ \E message \in Events : SCF_OnEvent(message)
    \/ SCF_Resume
    \/ SCF_OnEnd
    \/ \E e \in StreamFaults : SCF_OnFail(e)
    \/ SCF_Sentinel
    \/ SCF_Return

----------------------------------------------------------------------------
(* generate_poe_bot_response_with_files, generate_poe_bot_response *)

\* The except block of both accumulators: what leaves the call.
RaiseFrom(e, p) ==
    IF Truthy(p.error_data)
    THEN PoeAPIError(<<"Poe API Error: ">> \o PyFormat(p.error_message),
                     p.error_data, p.error_id)
    ELSE e

AccumulatorRaise(e) == RaiseFrom(e, parse_poe_error(e))

\* content += f"\n{attachment.url}\n" for every received file, in order.
RECURSIVE AppendUrls(_, _)
AppendUrls(content, files) ==
    IF files = <<>> THEN content
    ELSE AppendUrls(content \o <<NL>> \o Head(files).url \o <<NL>>,
                    Tail(files))

GWF_Begin ==
    /\ fn = "generate_poe_bot_response_with_files" /\ pc = "called"
    /\ model' = normalize_model(model_arg)
    /\ accumulated_response' = <<>>
    /\ received_files' = <<>>
    /\ response' = [role |-> "assistant", content |-> <<>>]
    /\ pc' = "await"
    /\ UNCHANGED <<tiktoken_ok, suspended, fn, format_type, model_arg,
                   messages,
                   consumed, first_chunk, token_counts, out, raised,
                   err_vars,
                   rest_vars>>

\* Mutant: a replace event also empties received_files.
Mutant_GWF_OnEvent(message) ==
    /\ fn = "generate_poe_bot_response_with_files" /\ pc = "await"
    /\ Len(consumed) < MaxEvents
    /\ LET kept == ResetOnReplace(message.is_replace_response,
                                  accumulated_response)
       IN /\ accumulated_response' = kept \o message.text
          /\ response' = [response EXCEPT !.content = accumulated_response']
    /\ LET files == IF message.is_replace_response THEN <<>>
                    ELSE received_files
       IN received_files' = IF HasAttachment(message)
                            THEN Append(files, message.attachment)
                            ELSE files
    /\ consumed' = Append(consumed, message)
    /\ UNCHANGED <<tiktoken_ok, suspended, fn, format_type, model_arg,
                   messages, pc,
                   model, first_chunk, token_counts, out, raised, err_vars,
                   rest_vars>>

GWF_OnEvent(message) ==
    /\ fn = "generate_poe_bot_response_with_files" /\ pc = "await"
    /\ Len(consumed) < MaxEvents
    /\ LET kept == ResetOnReplace(message.is_replace_response,
                                  accumulated_response)
       IN /\ accumulated_response' = kept \o message.text
          /\ response' = [response EXCEPT !.content = accumulated_response']
    /\ received_files' = IF HasAttachment(message)
                         THEN Append(received_files, message.attachment)
                         ELSE received_files
    /\ consumed' = Append(consumed, message)
    /\ UNCHANGED <<tiktoken_ok, suspended, fn, format_type, model_arg,
                   messages, pc,
                   model, first_chunk, token_counts, out, raised, err_vars,
                   rest_vars>>

GWF_OnEnd ==
    /\ fn = "generate_poe_bot_response_with_files" /\ pc = "await"
    /\ response' = [response EXCEPT
                      !.content = AppendUrls(response.content, received_files)]
    /\ pc' = "returned"
    /\ UNCHANGED <<tiktoken_ok, suspended, fn, format_type, model_arg,
                   messages, model,
                   consumed, first_chunk, accumulated_response, token_counts,
                   out, received_files, raised, err_vars,
                   rest_vars>>

\* Mutant: the fault ends the loop and what has accumulated is returned.
Mutant_GWF_OnFail(e) ==
    /\ fn = "generate_poe_bot_response_with_files" /\ pc = "await"
    /\ fault' = e
    /\ parsed' = parse_poe_error(e)
    /\ response' = [response EXCEPT
                      !.content = AppendUrls(response.content, received_files)]
    /\ pc' = "returned"
    /\ UNCHANGED <<tiktoken_ok, suspended, fn, format_type, model_arg,
                   messages, model,
                   consumed, first_chunk, accumulated_response, token_counts,
                   out, received_files, raised, epc,
                   rest_vars>>

GWF_OnFail(e) ==
    /\ fn = "generate_poe_bot_response_with_files" /\ pc = "await"
    /\ fault' = e
    /\ parsed' = parse_poe_error(e)
    /\ raised' = AccumulatorRaise(e)
    /\ pc' = "raised"
    /\ UNCHANGED <<tiktoken_ok, suspended, fn, format_type, model_arg,
                   messages, model,
                   consumed, first_chunk, accumulated_response, token_counts,
                   out, received_files, response, epc,
                   rest_vars>>

generate_poe_bot_response_with_files ==
    \/ GWF_Begin
    \/ \E message \in Events : GWF_OnEvent(message)
    \/ GWF_OnEnd
    \/ \E e \in StreamFaults : GWF_OnFail(e)

GR_Begin ==
    /\ fn = "generate_poe_bot_response" /\ pc = "called"
    /\ model' = normalize_model(model_arg)
    /\ accumulated_response' = <<>>
    /\ response' = [role |-> "assistant", content |-> <<>>]
    /\ pc' = "await"
    /\ UNCHANGED <<tiktoken_ok, suspended, fn, format_type, model_arg,
                   messages,
                   consumed, first_chunk, token_counts, out, received_files,
                   raised, err_vars,
                   rest_vars>>

GR_OnEvent(message) ==
    /\ fn = "generate_poe_bot_response" /\ pc = "await"
    /\ Len(consumed) < MaxEvents
    /\ LET kept == ResetOnReplace(message.is_replace_response,
                                  accumulated_response)
       IN /\ accumulated_response' = kept \o message.text
          /\ response' = [response EXCEPT !.content = accumulated_response']
    /\ consumed' = Append(consumed, message)
    /\ UNCHANGED <<tiktoken_ok, suspended, fn, format_type, model_arg,
                   messages, pc,
                   model, first_chunk, token_counts, out, received_files,
                   raised, err_vars,
                   rest_vars>>

GR_OnEnd ==
    /\ fn = "generate_poe_bot_response" /\ pc = "await"
    /\ pc' = "returned"
    /\ UNCHANGED <<tiktoken_ok, suspended, fn, format_type, model_arg,
                   messages, model,
                   consumed, first_chunk, accumulated_response, token_counts,
                   out, received_files, response, raised, err_vars,
                   rest_vars>>

GR_OnFail(e) ==
    /\ fn = "generate_poe_bot_response" /\ pc = "await"
    /\ fault' = e
    /\ parsed' = parse_poe_error(e)
    /\ raised' = AccumulatorRaise(e)
    /\ pc' = "raised"
    /\ UNCHANGED <<tiktoken_ok, suspended, fn, format_type, model_arg,
                   messages, model,
                   consumed, first_chunk, accumulated_response, token_counts,
                   out, received_files, response, epc,
                   rest_vars>>

generate_poe_bot_response ==
    \/ GR_Begin
    \/ \E message \in Events : GR_OnEvent(message)
    \/ GR_OnEnd
    \/ \E e \in StreamFaults : GR_OnFail(e)

----------------------------------------------------------------------------
(* Specifications *)

Next ==
    \/ stream_response_with_replace
    \/ stream_response
    \/ stream_completions_format_with_files
    \/ generate_poe_bot_response_with_files
    \/ generate_poe_bot_response

Spec == InitGen /\ [][Next]_vars

----------------------------------------------------------------------------
(* Properties of the streaming generators and accumulators (under Spec) *)

StreamingFns == {"stream_response_with_replace", "stream_response",
                 "stream_completions_format_with_files"}
AccumulatorFns == {"generate_poe_bot_response_with_files",
                   "generate_poe_bot_response"}

IsErrorEvent(frame) == IsJson(frame) /\ "error" \in DOMAIN frame.json

\* A chunk of the chat or completion dialect that carries finish_reason "stop".
HasStop(frame) ==
    /\ IsJson(frame)
    /\ "choices" \in DOMAIN frame.json
    /\ frame.json.choices[1].finish_reason = STOP

HasUsage(frame) == IsJson(frame) /\ "usage" \in DOMAIN frame.json

\* The text a content chunk carries, whatever its dialect.
ChunkContent(json) ==
    IF "response" \in DOMAIN json THEN json.response
    ELSE IF "text" \in DOMAIN json.choices[1] THEN json.choices[1].text
    ELSE json.choices[1].delta.content

\* The events from the last replace event on (all of them when none is).
SinceLastReplace(evs) ==
    LET marks == {i \in 1..Len(evs) : evs[i].is_replace_response} IN
    IF marks = {} THEN evs ELSE From(evs, Max(marks))

DeltaText(message) == message.text

\* The concatenation of what each of the events evs contributes.
Contributions(evs, Part(_)) == Concat([i \in 1..Len(evs) |-> Part(evs[i])])

EndedNormally == pc = "returned" /\ fault = NoFault

\* C1: a chat stream whose upstream ends normally ends with exactly one
\* chunk carrying finish_reason "stop" and usage, then exactly one [DONE],
\* after one content chunk per event, whatever the number of events.
C1_ChatStreamEndsWithUsageThenDone ==
    (/\ fn = "stream_response_with_replace"
     /\ format_type = "chat"
     /\ EndedNormally)
    => LET n == Len(out) IN
       /\ n = Len(consumed) + 2
       /\ HasStop(out[n - 1]) /\ HasUsage(out[n - 1])
       /\ IsDone(out[n])
       /\ \A i \in 1..(n - 2) :
            ~HasStop(out[i]) /\ ~HasUsage(out[i]) /\ ~IsDone(out[i])

C1_Witness ==
    /\ fn = "stream_response_with_replace" /\ format_type = "chat"
    /\ EndedNormally
    /\ Len(consumed) = 2

\* C2: in stream_response_with_replace and in the two accumulators the
\* buffer is, after every event, the concatenation of what the events from
\* the last replace event on contributed (the chunk text in the generator,
\* message.text in the accumulators).
C2_BufferIsDeltasSinceLastReplace ==
    /\ (fn = "stream_response_with_replace" /\ pc # "called")
       => accumulated_response =
            Contributions(SinceLastReplace(consumed), MessageText)
    /\ (fn \in AccumulatorFns /\ pc # "called")
       => /\ accumulated_response =
               Contributions(SinceLastReplace(consumed), DeltaText)
          /\ pc = "await" => response.content = accumulated_response

\* delta("a") then replace-delta("b") leaves "b".
C2_Witness ==
    /\ fn = "stream_response_with_replace"
    /\ Len(consumed) = 2
    /\ consumed[1] = Event(<<"a">>, FALSE, NoAttachment)
    /\ consumed[2] = Event(<<"b">>, TRUE, NoAttachment)
    /\ accumulated_response = <<"b">>

\* C3: in stream_completions_format_with_files the buffer holds only what
\* the events from the last replace event on contributed.
C3_CompletionStreamResetsOnReplace ==
    (fn = "stream_completions_format_with_files" /\ pc # "called")
    => accumulated_response =
         Contributions(SinceLastReplace(consumed), MessageText)

\* C4: an upstream failure never leaves a streaming generator: the generator
\* yields, after the content chunks, exactly one error event, then [DONE]
\* when its dialect is chat or completion, and returns.
C4_FailureBecomesTerminalErrorEvent ==
    (fn \in StreamingFns /\ fault # NoFault)
    => /\ raised = NoFault
       /\ pc \in {"yielded_error", "yielded_done", "returned"}
       /\ LET k == Len(consumed) + 1 IN
          /\ Len(out) >= k
          /\ IsErrorEvent(out[k])
          /\ \A i \in 1..Len(out) : i # k => ~IsErrorEvent(out[i])
          /\ pc = "returned"
             => IF WantsSentinel(format_type)
                THEN Len(out) = k + 1 /\ IsDone(out[k + 1])
                ELSE Len(out) = k

C4_Witness ==
    /\ fn \in StreamingFns /\ fault # NoFault
    /\ pc = "returned"
    /\ Len(consumed) = 1
    /\ format_type = "chat"

UsageConsistent(u) ==
    /\ u.prompt_tokens >= 0 /\ u.completion_tokens >= 0 /\ u.total_tokens >= 0
    /\ u.total_tokens = u.prompt_tokens + u.completion_tokens

\* C5: the counters always satisfy total = prompt + completion with all
\* three non-negative, and so does every usage object that was emitted, in
\* a final chunk or in an error event.
C5_UsageTotalIsSum ==
    fn \in StreamingFns
    => /\ UsageConsistent(token_counts)
       /\ \A i \in 1..Len(out) :
            HasUsage(out[i]) => UsageConsistent(out[i].json.usage)

\* An error event with usage, after a replace event.
C5_Witness ==
    /\ fn \in StreamingFns
    /\ \E i \in 1..Len(consumed) : consumed[i].is_replace_response
    /\ \E i \in 1..Len(out) : IsErrorEvent(out[i]) /\ HasUsage(out[i])

\* What the k-th content chunk of the running generator carries.
ChunkTextOf(message) ==
    IF fn = "stream_response" THEN message.text ELSE MessageText(message)

\* C6: the k-th frame yielded is the content chunk of the k-th event; no
\* event is skipped or merged; and whenever the next event is requested
\* every event received so far has had its chunk yielded.
C6_ChunksFollowEventOrder ==
    (fn \in StreamingFns /\ pc # "called")
    => /\ Len(out) >= Len(consumed)
       /\ \A k \in 1..Len(consumed) :
            /\ IsJson(out[k]) /\ ~IsErrorEvent(out[k]) /\ ~HasUsage(out[k])
            /\ ChunkContent(out[k].json) = ChunkTextOf(consumed[k])
       /\ \A k \in (Len(consumed) + 1)..Len(out) :
            IsDone(out[k]) \/ IsErrorEvent(out[k]) \/ HasUsage(out[k])
       /\ pc = "await" => Len(out) = Len(consumed)

C6_Witness ==
    /\ fn = "stream_completions_format_with_files"
    /\ pc = "await"
    /\ Len(consumed) = 2
    /\ consumed[1] # consumed[2]

----------------------------------------------------------------------------
(* Attachment upload: process_base64_image, process_image_url              *)

\* The most content parts of one message.
MaxParts == 3

DATA_PREFIX == <<"data:">>
B64_SEP     == <<";base64,">>
TYPE_KEY      == <<"type">>
IMAGE_URL_KEY == <<"image_url">>
URL_KEY       == <<"url">>

\* The characters of the base64 alphabet that the model's payloads use.
B64Alphabet == {"A", "Q"}

\* base64.b64decode(data) returns: characters outside the alphabet are
\* discarded, and what is left must come in groups of four.
B64Decodes(payload) ==
    LET InAlphabet(ch) == ch \in B64Alphabet
    IN Len(SelectSeq(payload, InAlphabet)) % 4 = 0

\* extension_map.get(mime_type, "bin")
ExtensionOf(mime_type) ==
    IF mime_type = <<"image/jpeg">> THEN "jpg"
    ELSE IF mime_type = <<"image/png">> THEN "png"
    ELSE IF mime_type = <<"image/webp">> THEN "webp"
    ELSE IF mime_type = <<"image/gif">> THEN "gif"
    ELSE IF mime_type = <<"application/pdf">> THEN "pdf"
    ELSE "bin"

UPLOAD_URL == <<"https://cdn/up">>

\* What an upload helper hands back: an attachment, or a ValueError.
Uploaded(attachment) == [ok |-> TRUE, attachment |-> attachment]
UploadValueError == [ok |-> FALSE, attachment |-> NoAttachment]

\* process_base64_image(data_url); `accepts` is whether fp.upload_file
\* succeeds.  Every exception inside becomes a ValueError.  The attachment
\* carries the file name that was sent.
process_base64_image(data_url, accepts) ==
    IF ~StartsWith(data_url, DATA_PREFIX) THEN UploadValueError
    ELSE IF ~Contains(data_url, B64_SEP)
    THEN \* the two-name unpacking of split(";base64,", 1) fails
         UploadValueError
    ELSE LET header == Upto(data_url, Min(Occurrences(data_url, B64_SEP)) - 1)
             payload == AfterFirst(data_url, B64_SEP)
             mime_type == Tail(header)
             file_name == <<"uploaded_file.", ExtensionOf(mime_type)>>
         IN IF ~B64Decodes(payload) THEN UploadValueError
            ELSE IF ~accepts THEN UploadValueError
            ELSE Uploaded(Attachment(UPLOAD_URL, file_name))

\* process_image_url(url): Poe downloads the file and names it.
process_image_url(url, accepts) ==
    IF accepts THEN Uploaded(Attachment(UPLOAD_URL, <<"remote_file">>))
    ELSE UploadValueError

----------------------------------------------------------------------------
(* convert_openai_content_to_poe *)

UploadedPlaceholder(name) ==
    <<LBRACK, "Uploaded Image", COLON, SP>> \o name \o <<RBRACK>>

FromUrlPlaceholder(name) ==
    <<LBRACK, "Image from URL", COLON, SP>> \o name \o <<RBRACK>>

\* f"[Image (upload failed): {url}]"
FailedPlaceholder(url) ==
    <<LBRACK, "Image", SP, LPAREN, "upload failed", RPAREN, COLON, SP>>
    \o url \o <<RBRACK>>

\* f"[Image: {image_url}]"
LegacyFailedPlaceholder(image_url) ==
    <<LBRACK, "Image", COLON, SP>> \o image_url \o <<RBRACK>>

PartResult(raises, texts, atts, upload) ==
    [raises |-> raises, text_parts |-> texts, attachments |-> atts,
     upload |-> upload]

Untouched == PartResult(FALSE, <<>>, <<>>, "none")

\* Mutant: every uploaded image is announced as a data-URI upload.
Mutant_UploadOutcome(is_data_url, r, fallback) ==
    IF r.ok
    THEN PartResult(FALSE, <<UploadedPlaceholder(r.attachment.name)>>,
                    <<r.attachment>>, "uploaded")
    ELSE PartResult(FALSE, <<fallback>>, <<>>, "failed")

\* What the try block of an image branch appends, r being what the upload
\* helper handed back and fallback the text of the except branch.
UploadOutcome(is_data_url, r, fallback) ==
    IF r.ok
    THEN PartResult(FALSE,
                    << IF is_data_url
                       THEN UploadedPlaceholder(r.attachment.name)
                       ELSE FromUrlPlaceholder(r.attachment.name) >>,
                    <<r.attachment>>, "uploaded")
    ELSE PartResult(FALSE, <<fallback>>, <<>>, "failed")

\* The try block shared by the two image branches, for a non-empty str url.
UploadImage(url, accepts, fallback) ==
    IF StartsWith(url, DATA_PREFIX)
    THEN UploadOutcome(TRUE, process_base64_image(url, accepts), fallback)
    ELSE UploadOutcome(FALSE, process_image_url(url, accepts), fallback)

\* An AttributeError leaves the function.
PartRaises == PartResult(TRUE, <<>>, <<>>, "none")

\* One iteration of the loop, for the content part comp.
ConvertPart(comp, accepts) ==
    IF comp.t # "dict" THEN Untouched
    ELSE LET type == DictGet(comp, TYPE_KEY, PyNone) IN
    IF type = PyStr(<<"text">>) /\ DictHas(comp, TEXT_KEY)
    THEN PartResult(FALSE, <<DictGet(comp, TEXT_KEY, PyNone).s>>, <<>>, "none")
    ELSE IF type = PyStr(<<"image_url">>)
    THEN LET image_url_obj == DictGet(comp, IMAGE_URL_KEY, PyDict(<<>>)) IN
         IF image_url_obj.t # "dict" THEN PartRaises
         ELSE LET url == DictGet(image_url_obj, URL_KEY, PyStr(<<>>)) IN
              IF ~Truthy(url) THEN Untouched
              ELSE IF ~IsStr(url) THEN PartRaises
              ELSE UploadImage(url.s, accepts, FailedPlaceholder(url.s))
    ELSE IF type = PyStr(<<"image">>)
    THEN LET image_url == DictGet(comp, IMAGE_URL_KEY, PyStr(<<>>)) IN
         IF ~Truthy(image_url) THEN Untouched
         ELSE IF ~IsStr(image_url) THEN PartRaises
         ELSE UploadImage(image_url.s, accepts,
                          LegacyFailedPlaceholder(image_url.s))
    ELSE Untouched

\* The whole function, with accepts[j] the fate of the upload of part j:
\* the (text, attachments) pair, or an exception.
\* The loop's lists after one more iteration, which gave r.
AfterPart(before, r) ==
    IF before.raises \/ r.raises THEN PartRaises
    ELSE PartResult(FALSE, before.text_parts \o r.text_parts,
                    before.attachments \o r.attachments, "none")

RECURSIVE ConvertLoop(_, _)
ConvertLoop(parts, accepts) ==
    IF parts = <<>> THEN PartResult(FALSE, <<>>, <<>>, "none")
    ELSE AfterPart(ConvertLoop(Upto(parts, Len(parts) - 1), accepts),
                   ConvertPart(parts[Len(parts)], accepts[Len(parts)]))

\* return " ".join(text_parts), attachments
ConvertReturn(r) ==
    [raises |-> r.raises,
     text |-> Join(<<SP>>, r.text_parts),
     attachments |-> r.attachments]

convert_openai_content_to_poe(parts, accepts) ==
    ConvertReturn(ConvertLoop(parts, accepts))

----------------------------------------------------------------------------
(* One call of convert_openai_content_to_poe, iteration by iteration *)

Member(k, v) == [k |-> k, val |-> v]

TextPart(t) ==
    PyDict(<<Member(TYPE_KEY, PyStr(<<"text">>)), Member(TEXT_KEY, PyStr(t))>>)

ImageUrlPart(url) ==
    PyDict(<<Member(TYPE_KEY, PyStr(<<"image_url">>)),
             Member(IMAGE_URL_KEY, PyDict(<<Member(URL_KEY, PyStr(url))>>))>>)

LegacyImagePart(image_url) ==
    PyDict(<<Member(TYPE_KEY, PyStr(<<"image">>)),
             Member(IMAGE_URL_KEY, PyStr(image_url))>>)

DataUrl(mime, payload) == DATA_PREFIX \o <<mime>> \o B64_SEP \o payload

GoodDataUrl   == DataUrl("image/png", <<"A", "Q", "A", "A">>)
BadPadDataUrl == DataUrl("image/png", <<"A">>)
NoSepDataUrl  == DATA_PREFIX \o <<"image/png", COMMA, "A", "Q", "A", "A">>
HttpUrl       == <<"https://example.com/cat.png">>

\* The content parts of the model: text, both image forms with every kind
\* of URL, and parts the loop skips or chokes on.
Parts ==
    { TextPart(<<"a">>),
      TextPart(<<"b">>),
      ImageUrlPart(GoodDataUrl),
      ImageUrlPart(BadPadDataUrl),
      ImageUrlPart(NoSepDataUrl),
      ImageUrlPart(HttpUrl),
      ImageUrlPart(<<>>),
      LegacyImagePart(BadPadDataUrl),
      LegacyImagePart(HttpUrl),
      PyDict(<<Member(TYPE_KEY, PyStr(<<"text">>))>>),
      PyDict(<<Member(TYPE_KEY, PyStr(<<"audio">>))>>),
      PyDict(<<Member(TYPE_KEY, PyStr(<<"image_url">>)),
               Member(IMAGE_URL_KEY, PyStr(HttpUrl))>>) }

ContentLists == UNION {[1..n -> Parts] : n \in 0..MaxParts}

InitContent ==
    /\ tiktoken_ok = TRUE
    /\ suspended = NoFrame
    /\ GenIdle /\ ErrIdle /\ HttpIdle /\ ImgIdle
    /\ content_arg \in ContentLists
    /\ cpc = "called"
    /\ uploads = <<>> /\ text_parts = <<>> /\ attachments = <<>>
    /\ converted = <<>>

\* text_parts = [], attachments = []
Conv_Begin ==
    /\ cpc = "called"
    /\ text_parts' = <<>> /\ attachments' = <<>>
    /\ cpc' = "loop"
    /\ UNCHANGED <<tiktoken_ok, suspended, gen_vars, err_vars, http_vars,
                   img_vars,
                   content_arg, uploads, converted>>

\* The next iteration of `for comp in content`.
Conv_Part(accepts) ==
    /\ cpc = "loop" /\ Len(uploads) < Len(content_arg)
    /\ LET r == ConvertPart(content_arg[Len(uploads) + 1], accepts) IN
       /\ uploads' = Append(uploads, r.upload)
       /\ IF r.raises
          THEN cpc' = "raised" /\ UNCHANGED <<text_parts, attachments>>
          ELSE /\ cpc' = "loop"
               /\ text_parts' = text_parts \o r.text_parts
               /\ attachments' = attachments \o r.attachments
    /\ UNCHANGED <<tiktoken_ok, suspended, gen_vars, err_vars, http_vars,
                   img_vars,
                   content_arg, converted>>

\* return " ".join(text_parts), attachments
Conv_Return ==
    /\ cpc = "loop" /\ Len(uploads) = Len(content_arg)
    /\ converted' = <<Join(<<SP>>, text_parts), attachments>>
    /\ cpc' = "returned"
    /\ UNCHANGED <<tiktoken_ok, suspended, gen_vars, err_vars, http_vars,
                   img_vars,
                   content_arg, uploads, text_parts, attachments>>

NextContent ==
    \/ Conv_Begin
    \/ \E accepts \in BOOLEAN : Conv_Part(accepts)
    \/ Conv_Return

SpecContent == InitContent /\ [][NextContent]_vars

----------------------------------------------------------------------------
(* Properties of convert_openai_content_to_poe (under SpecContent) *)

\* The parts among the first j that put an entry into text_parts.
Contributing(j) ==
    {k \in 1..j : ConvertPart(content_arg[k], TRUE).text_parts # <<>>}

\* The index in text_parts of the entry of part j.
EntryOf(j) == Cardinality(Contributing(j))

MentionsFailure(entry) ==
    \E i \in 1..Len(entry) : entry[i] \in {"upload failed", "failed", "error"}

IsTextPart(comp) ==
    DictGet(comp, TYPE_KEY, PyNone) = PyStr(<<"text">>) /\ DictHas(comp, TEXT_KEY)

\* C8: a part whose upload failed does not end the call; its entry in the
\* text is a placeholder that mentions the failure; and once the call has
\* returned every later text part has its text in place and every part was
\* gone through, the text being the entries joined by spaces.
C8_FailedUploadLeavesFailurePlaceholder ==
    \A j \in 1..Len(uploads) :
        uploads[j] = "failed"
        => /\ Len(uploads) = j => cpc # "raised"
           /\ Len(text_parts) >= EntryOf(j)
           /\ MentionsFailure(text_parts[EntryOf(j)])
           /\ cpc = "returned"
              => /\ Len(uploads) = Len(content_arg)
                 /\ converted[1] = Join(<<SP>>, text_parts)
                 /\ \A k \in (j + 1)..Len(content_arg) :
                      IsTextPart(content_arg[k])
                      => text_parts[EntryOf(k)] =
                           DictGet(content_arg[k], TEXT_KEY, PyNone).s

\* What the call leaves in place once the failed part is set aside: the
\* call goes on, the part has an entry, and the parts after it are handled.
FailedUploadRecoveredLocally ==
    \A j \in 1..Len(uploads) :
        uploads[j] = "failed"
        => /\ Len(uploads) = j => cpc # "raised"
           /\ Len(text_parts) >= EntryOf(j)
           /\ text_parts[EntryOf(j)] # <<>>

----------------------------------------------------------------------------
(* One call of parse_poe_error *)

InitErrors ==
    /\ tiktoken_ok = TRUE
    /\ suspended = NoFrame
    /\ GenIdle /\ RestIdle
    /\ fault \in Faults
    /\ epc = "called"
    /\ parsed = NoParse

PPE_Call ==
    /\ epc = "called"
    /\ parsed' = parse_poe_error(fault)
    /\ epc' = "returned"
    /\ UNCHANGED <<tiktoken_ok, suspended, gen_vars, rest_vars, fault>>

NextErrors == PPE_Call

SpecErrors == InitErrors /\ [][NextErrors]_vars

----------------------------------------------------------------------------
(* Properties of parse_poe_error (under SpecErrors) *)

\* str(error) is {"text": "no access", "error_id": "abc123"}
NoAccessWithId == JObj(<<JMember(TEXT_KEY, JStr(T_NoAccess)), IdMember>>)

\* The JSON object the fault carries, bare or inside BotError('...').
CarriedObject(error) ==
    LET direct == JsonLoads(error.str)
        inner == IF Contains(error.str, BOTERROR_OPEN)
                    /\ Contains(error.str, BOTERROR_CLOSE)
                 THEN JsonLoads(BeforeLast(AfterFirst(error.str, BOTERROR_OPEN),
                                           BOTERROR_CLOSE))
                 ELSE JsonFail
    IN IF direct.ok /\ direct.val.t = "dict" THEN direct.val
       ELSE IF inner.ok /\ inner.val.t = "dict" THEN inner.val
       ELSE PyNone

\* The fault carries an identifier: an "error_id" member of its JSON object.
CarriesId(error) ==
    LET obj == CarriedObject(error) IN
    obj.t = "dict" /\ DictHas(obj, <<"error_id">>)

\* C9: the fault {"text": "no access", "error_id": "abc123"} is normalized
\* to message "no access", kind "poe_api_error" and upstream id "abc123";
\* and whenever the fault carries an identifier, that identifier is the
\* upstream id returned.
C9_IdentifierIsReturned ==
    epc = "returned"
    => /\ fault.str = NoAccessWithId
          => /\ parsed.error_message = PyStr(T_NoAccess)
             /\ parsed.error_type = "poe_api_error"
             /\ parsed.error_id = PyStr(<<"abc123">>)
       /\ CarriesId(fault)
          => parsed.error_id =
               DictGet(CarriedObject(fault), <<"error_id">>, PyNone)

----------------------------------------------------------------------------
(* image_generations and image_edits *)

\* The largest n a request asks for.
MaxRequested == 11

\* `min(request.n or 1, 10)`
MAX_IMAGES == 10

PyInt(i) == [t |-> "int", i |-> i]

ImageEndpoints == {"image_generations", "image_edits"}

\* request.n: absent (None) or any integer.
RequestedCounts == {PyNone} \cup {PyInt(i) : i \in -1..MaxRequested}

ResponseFormats == {"url", "b64_json"}

ImageRequest(n, response_format) ==
    [kind |-> "image", prompt |-> <<"a">>, model |-> PyNone, n |-> n,
     response_format |-> response_format]

\* Mutant: no upper limit.
Mutant_ClampCount(n) ==
    LET n_or_1 == IF n.t = "none" \/ n.i = 0 THEN 1 ELSE n.i
    IN Max({1, n_or_1})

\* max(1, min(n or 1, 10))
ClampCount(n) ==
    LET n_or_1 == IF n.t = "none" \/ n.i = 0 THEN 1 ELSE n.i
    IN Max({1, Min({n_or_1, MAX_IMAGES})})

\* The file the bot returns on attempt i, and what fetching it gives.
ImageFile(i) == Attachment(<<"https://cdn/img/", ToString(i)>>, <<"img">>)
B64Encode(url) == <<"base64 of">> \o url

\* fp.ProtocolMessage with attachments
ProtocolMessageWith(role, text, atts) ==
    [role |-> role, content |-> text, attachments |-> atts]

HttpOk(body) == [kind |-> "response", status |-> 200, body |-> body]

HTTPException(status_code, detail) ==
    [kind |-> "HTTPException", cls |-> "HTTPException",
     status_code |-> status_code, detail |-> detail]

ErrorDetail(message, type) == [error |-> [message |-> message, type |-> type]]

InitImages ==
    /\ tiktoken_ok = TRUE
    /\ suspended = NoFrame
    /\ GenIdle /\ ErrIdle /\ ConvIdle /\ ImgIdle
    /\ endpoint \in ImageEndpoints
    /\ request \in {ImageRequest(n, f) : n \in RequestedCounts,
                                          f \in ResponseFormats}
    /\ hpc = "called"
    /\ reply = NoReply

\* image_generations up to the loop.
IG_Begin ==
    /\ endpoint = "image_generations" /\ hpc = "called"
    /\ img_messages' =
         [bot_name |-> normalize_model(<<"Imagen-3-Fast">>),
          messages |-> <<ProtocolMessage("user", request.prompt)>>]
    /\ num_images' = ClampCount(request.n)
    /\ data' = <<>>
    /\ successful_generations' = 0
    /\ attempt' = 0
    /\ hpc' = "loop"
    /\ UNCHANGED <<tiktoken_ok, suspended, gen_vars, err_vars, conv_vars,
                   endpoint,
                   request, reply, file_result, outcomes>>

\* image_edits up to the loop: the uploaded image goes through
\* convert_openai_content_to_poe as a JPEG data URL, and `accepts` is
\* whether Poe takes the upload.
IE_Begin(accepts) ==
    /\ endpoint = "image_edits" /\ hpc = "called"
    /\ LET image_b64 == <<"A", "Q", "A", "A">>
           openai_content ==
               <<TextPart(request.prompt),
                 ImageUrlPart(DataUrl("image/jpeg", image_b64))>>
           poe == convert_openai_content_to_poe(openai_content,
                                                <<accepts, accepts>>)
       IN img_messages' =
            [bot_name |-> normalize_model(<<"StableDiffusionXL">>),
             messages |->
                IF poe.attachments # <<>>
                THEN <<ProtocolMessageWith("user", poe.text, poe.attachments)>>
                ELSE <<ProtocolMessage("user", poe.text)>>]
    /\ num_images' = ClampCount(request.n)
    /\ data' = <<>>
    /\ successful_generations' = 0
    /\ attempt' = 0
    /\ hpc' = "loop"
    /\ UNCHANGED <<tiktoken_ok, suspended, gen_vars, err_vars, conv_vars,
                   endpoint,
                   request, reply, file_result, outcomes>>

\* The loop goes on: get_first_file_from_bot is called and awaited.
Img_CallBot ==
    /\ endpoint \in ImageEndpoints /\ hpc = "loop"
    /\ attempt < num_images
    /\ hpc' = "await_bot"
    /\ UNCHANGED <<tiktoken_ok, suspended, gen_vars, err_vars, conv_vars,
                   endpoint,
                   request, reply, img_vars>>

\* The attempt is over and failed: nothing is appended.
AttemptFailed ==
    /\ outcomes' = Append(outcomes, "failed")
    /\ attempt' = attempt + 1
    /\ file_result' = NoAttachment
    /\ hpc' = "loop"
    /\ UNCHANGED <<data, successful_generations>>

\* The attempt is over and gave `entry`.
AttemptSucceeded(entry) ==
    /\ data' = Append(data, entry)
    /\ successful_generations' = successful_generations + 1
    /\ outcomes' = Append(outcomes, "ok")
    /\ attempt' = attempt + 1
    /\ file_result' = NoAttachment
    /\ hpc' = "loop"

\* The bot's stream carried an attachment.
Img_BotReturnsFile ==
    /\ endpoint \in ImageEndpoints /\ hpc = "await_bot"
    /\ IF request.response_format = "b64_json"
       THEN /\ file_result' = ImageFile(attempt)
            /\ hpc' = "await_fetch"
            /\ UNCHANGED <<data, successful_generations, outcomes, attempt>>
       ELSE AttemptSucceeded([url |-> ImageFile(attempt).url])
    /\ UNCHANGED <<tiktoken_ok, suspended, gen_vars, err_vars, conv_vars,
                   endpoint,
                   request, reply, img_messages, num_images>>

\* The bot's stream ended without an attachment: file_result is None.
Img_BotReturnsNothing ==
    /\ endpoint \in ImageEndpoints /\ hpc = "await_bot"
    /\ AttemptFailed
    /\ UNCHANGED <<tiktoken_ok, suspended, gen_vars, err_vars, conv_vars,
                   endpoint,
                   request, reply, img_messages, num_images>>

\* get_first_file_from_bot raises: `except Exception: continue`.
Img_BotRaises ==
    /\ endpoint \in ImageEndpoints /\ hpc = "await_bot"
    /\ AttemptFailed
    /\ UNCHANGED <<tiktoken_ok, suspended, gen_vars, err_vars, conv_vars,
                   endpoint,
                   request, reply, img_messages, num_images>>

\* client.get(file_result.url) returns.
Img_FetchReturns ==
    /\ endpoint \in ImageEndpoints /\ hpc = "await_fetch"
    /\ AttemptSucceeded([b64_json |-> B64Encode(file_result.url)])
    /\ UNCHANGED <<tiktoken_ok, suspended, gen_vars, err_vars, conv_vars,
                   endpoint,
                   request, reply, img_messages, num_images>>

\* client.get(file_result.url) raises: `except Exception: continue`.
Img_FetchRaises ==
    /\ endpoint \in ImageEndpoints /\ hpc = "await_fetch"
    /\ AttemptFailed
    /\ UNCHANGED <<tiktoken_ok, suspended, gen_vars, err_vars, conv_vars,
                   endpoint,
                   request, reply, img_messages, num_images>>

\* A variant of AnySucceeded that wants more than one success.
Mutant_AnySucceeded(successes) == successes > 1

\* `if successful_generations > 0`
AnySucceeded(successes) == successes > 0

NoFileMessage(ep) ==
    IF ep = "image_generations"
    THEN ErrorDetail(<<"Failed to generate image - no file returned from bot">>,
                     "image_generation_error")
    ELSE ErrorDetail(<<"Failed to edit image - no file returned from bot">>,
                     "image_edit_error")

\* After the loop: the success body, or the HTTPException.
Img_Finish ==
    /\ endpoint \in ImageEndpoints /\ hpc = "loop"
    /\ attempt = num_images
    /\ IF AnySucceeded(successful_generations)
       THEN /\ reply' = HttpOk([created |-> "now", data |-> data])
            /\ hpc' = "returned"
       ELSE /\ reply' = HTTPException(500, NoFileMessage(endpoint))
            /\ hpc' = "raised"
    /\ UNCHANGED <<tiktoken_ok, suspended, gen_vars, err_vars, conv_vars,
                   endpoint,
                   request, img_vars>>

image_generations ==
    \/ IG_Begin
    \/ Img_CallBot
    \/ Img_BotReturnsFile
    \/ Img_BotReturnsNothing
    \/ Img_BotRaises
    \/ Img_FetchReturns
    \/ Img_FetchRaises
    \/ Img_Finish

image_edits == \E accepts \in BOOLEAN : IE_Begin(accepts)

NextImages == image_generations \/ image_edits

SpecImages == InitImages /\ [][NextImages]_vars

----------------------------------------------------------------------------
(* Properties of the image handlers (under SpecImages) *)

\* The attempts that succeeded, in attempt order (numbered from 1).
RECURSIVE SuccessfulAttempts(_)
SuccessfulAttempts(results) ==
    IF results = <<>> THEN <<>>
    ELSE LET before == SuccessfulAttempts(Upto(results, Len(results) - 1))
         IN IF results[Len(results)] = "ok"
            THEN Append(before, Len(results))
            ELSE before

\* The data entry a successful attempt gives (the loop counts from 0).
EntryOfAttempt(a) ==
    IF request.response_format = "b64_json"
    THEN [b64_json |-> B64Encode(ImageFile(a - 1).url)]
    ELSE [url |-> ImageFile(a - 1).url]

HandlerDone == hpc \in {"returned", "raised"}

\* C7: when an image handler is done it has made one attempt per requested
\* image; with K successful attempts, K >= 1 gives a success body whose data
\* list has exactly K entries, those of the successful attempts in attempt
\* order, and K = 0 gives an HTTP 500 error.
C7_DataHoldsTheSuccessfulAttempts ==
    (endpoint \in ImageEndpoints /\ HandlerDone)
    => LET succeeded == SuccessfulAttempts(outcomes)
           K == Len(succeeded)
       IN /\ Len(outcomes) = num_images
          /\ (request.n.t = "int" /\ request.n.i \in 1..MAX_IMAGES)
             => num_images = request.n.i
          /\ K >= 1
             => /\ hpc = "returned"
                /\ reply.kind = "response" /\ reply.status = 200
                /\ Len(reply.body.data) = K
                /\ \A j \in 1..K :
                     reply.body.data[j] = EntryOfAttempt(succeeded[j])
          /\ K = 0
             => /\ hpc = "raised"
                /\ reply.kind = "HTTPException" /\ reply.status_code = 500

\* n = 5 with two failures, the second and the fourth attempt.
C7_Witness ==
    /\ endpoint = "image_generations" /\ hpc = "returned"
    /\ request.n = PyInt(5)
    /\ outcomes = <<"ok", "failed", "ok", "failed", "ok">>
    /\ Len(reply.body.data) = 3

----------------------------------------------------------------------------
(* chat_completions *)

ChatMessage(role, text) == [role |-> role, content |-> text]

ChatRequest(msgs, stream) ==
    [kind |-> "chat", model |-> <<SP, "GPT-4o", SP>>, messages |-> msgs,
     stream |-> stream, tools |-> PyNone]

\* The message lists of the requests: none, plain text, absent content, a
\* history with an image, two lists whose image part has the wrong shape, and
\* a history with such a part in the middle.
RequestMessageLists ==
    { <<>>,
      <<ChatMessage("user", PyStr(<<"a", "b">>))>>,
      <<ChatMessage("user", PyNone)>>,
      <<ChatMessage("system", PyStr(<<"b">>)),
        ChatMessage("assistant", PyStr(<<"a">>)),
        ChatMessage("user", PyList(<<TextPart(<<"a">>),
                                     ImageUrlPart(GoodDataUrl)>>))>>,
      <<ChatMessage("user",
                    PyList(<<TextPart(<<"a">>),
                             PyDict(<<Member(TYPE_KEY, PyStr(<<"image_url">>)),
                                      Member(IMAGE_URL_KEY,
                                             PyDict(<<Member(URL_KEY,
                                                             PyNum("5"))>>))>>)
                           >>))>>,
      <<ChatMessage("user",
                    PyList(<<PyDict(<<Member(TYPE_KEY, PyStr(<<"image_url">>)),
                                      Member(IMAGE_URL_KEY, PyStr(HttpUrl))>>)
                           >>))>>,
      <<ChatMessage("system", PyStr(<<"b">>)),
        ChatMessage("user",
                    PyList(<<TextPart(<<"a">>),
                             PyDict(<<Member(TYPE_KEY, PyStr(<<"image_url">>)),
                                      Member(IMAGE_URL_KEY,
                                             PyDict(<<Member(URL_KEY,
                                                             PyNum("5"))>>))>>)
                           >>)),
        ChatMessage("assistant", PyStr(<<"a">>)),
        ChatMessage("user", PyStr(<<"a", "b">>))>> }

\* The faults the upstream raises under a chat request without streaming.
ChatFaults ==
    { Exc("ValueError", T_Model),
      Exc("ValueError", T_NoAccess),
      Exc("BotError", JObj(<<JMember(TEXT_KEY, JStr(T_NoAccess)), IdMember>>)),
      Exc("Exception", T_WithId),
      Exc("Exception", JObj(<<>>)),
      Exc("BotError", Wrapped(JObj(<<JMember(TEXT_KEY, JStr(T_Ise))>>))) }

NO_GET == <<"'str' object has no attribute 'get'">>

\* The fallback text extraction of the handler, one part: the entry it
\* appends (none when it skips the part), or an AttributeError.
FallbackPart(comp) ==
    IF comp.t # "dict" THEN [raises |-> FALSE, parts |-> <<>>]
    ELSE LET type == DictGet(comp, TYPE_KEY, PyNone) IN
    IF type = PyStr(<<"text">>) /\ DictHas(comp, TEXT_KEY)
    THEN [raises |-> FALSE, parts |-> <<DictGet(comp, TEXT_KEY, PyNone).s>>]
    ELSE IF type = PyStr(<<"image_url">>)
    THEN LET image_url_obj == DictGet(comp, IMAGE_URL_KEY, PyDict(<<>>)) IN
         IF image_url_obj.t # "dict" THEN [raises |-> TRUE, parts |-> <<>>]
         ELSE [raises |-> FALSE,
               parts |-> <<LegacyFailedPlaceholder(
                             PyFormat(DictGet(image_url_obj, URL_KEY,
                                              PyStr(<<>>))))>>]
    ELSE IF type = PyStr(<<"image">>)
    THEN [raises |-> FALSE,
          parts |-> <<LegacyFailedPlaceholder(
                        PyFormat(DictGet(comp, IMAGE_URL_KEY, PyStr(<<>>))))>>]
    ELSE [raises |-> FALSE, parts |-> <<>>]

AfterFallbackPart(before, r) ==
    [raises |-> before.raises \/ r.raises, parts |-> before.parts \o r.parts]

RECURSIVE FallbackParts(_)
FallbackParts(comps) ==
    IF comps = <<>> THEN [raises |-> FALSE, parts |-> <<>>]
    ELSE AfterFallbackPart(FallbackParts(Upto(comps, Len(comps) - 1)),
                           FallbackPart(comps[Len(comps)]))

\* The body of `for msg in request.messages` for one message: the
\* ProtocolMessage appended, or the exception that leaves the loop.
MultimodalMessage(role, poe, fallback) ==
    IF ~poe.raises
    THEN [raises |-> FALSE,
          message |-> IF poe.attachments # <<>>
                      THEN ProtocolMessageWith(role, poe.text, poe.attachments)
                      ELSE ProtocolMessage(role, poe.text)]
    ELSE IF fallback.raises
    THEN [raises |-> TRUE, message |-> ProtocolMessage(role, <<>>)]
    ELSE [raises |-> FALSE,
          message |-> ProtocolMessage(role, Join(<<SP>>, fallback.parts))]

\* `content = msg.content or ""`
ContentOrEmpty(c) == IF Truthy(c) THEN c ELSE PyStr(<<>>)

MessageFrom(role, given, accepts) ==
    IF given.t # "list"
    THEN [raises |-> FALSE, message |-> ProtocolMessage(role, given.s)]
    ELSE MultimodalMessage(
             role,
             convert_openai_content_to_poe(
                 given.items, [j \in 1..Len(given.items) |-> accepts]),
             FallbackParts(given.items))

PrepareMessage(msg, accepts) ==
    MessageFrom(normalize_role(msg.role), ContentOrEmpty(msg.content), accepts)

\* Mutant: a message whose content came out empty is not appended.
Mutant_AfterMessage(before, r) ==
    IF before.raises \/ r.raises
    THEN [raises |-> TRUE, messages |-> <<>>]
    ELSE IF r.message.content = <<>>
    THEN before
    ELSE [raises |-> FALSE, messages |-> Append(before.messages, r.message)]

AfterMessage(before, r) ==
    IF before.raises \/ r.raises
    THEN [raises |-> TRUE, messages |-> <<>>]
    ELSE [raises |-> FALSE, messages |-> Append(before.messages, r.message)]

RECURSIVE PrepareMessages(_, _)
PrepareMessages(msgs, accepts) ==
    IF msgs = <<>> THEN [raises |-> FALSE, messages |-> <<>>]
    ELSE AfterMessage(PrepareMessages(Upto(msgs, Len(msgs) - 1), accepts),
                      PrepareMessage(msgs[Len(msgs)], accepts))

\* The detail of an error that carries the upstream's data.
PoeErrorDetail(message, type, poe_error, error_id) ==
    LET base == [message |-> message, type |-> type, poe_error |-> poe_error]
    IN [error |-> IF Truthy(error_id)
                  THEN base @@ [error_id |-> error_id]
                  ELSE base]

\* `if "Model" in str(e)`: the status of a ValueError.
ValueErrorStatus(e) == IF Contains(e.str, MODEL_MARK) THEN 404 ELSE 400

\* The last branch of the except block, p being what parse_poe_error gave.
ParsedError(p) ==
    IF Truthy(p.error_data)
    THEN HTTPException(500, PoeErrorDetail(p.error_message, p.error_type,
                                           p.error_data, p.error_id))
    ELSE HTTPException(500, ErrorDetail(p.error_message, p.error_type))

\* The `except Exception as e` block of chat_completions: what it raises.
ChatExcept(e) ==
    IF e.cls = "HTTPException" THEN e
    ELSE IF e.cls = "PoeAPIError"
    THEN IF Truthy(e.error_data)
         THEN HTTPException(e.status_code,
                            PoeErrorDetail(PyStr(e.message), "poe_api_error",
                                           e.error_data, e.error_id))
         ELSE HTTPException(e.status_code,
                            ErrorDetail(PyStr(e.message), "poe_api_error"))
    ELSE IF IsValueError(e)
    THEN HTTPException(ValueErrorStatus(e),
                       ErrorDetail(PyStr(e.str), "invalid_request_error"))
    ELSE ParsedError(parse_poe_error(e))

EmptyMessages ==
    HTTPException(400,
                  [error |-> [message |-> PyStr(<<"Messages array cannot be empty">>),
                              type |-> "invalid_request_error",
                              param |-> "messages"]])

StreamingResponse == [kind |-> "StreamingResponse", status |-> 200,
                      media_type |-> "text/event-stream"]

InitChat ==
    /\ tiktoken_ok \in BOOLEAN
    /\ suspended = NoFrame
    /\ GenIdle /\ ErrIdle /\ ConvIdle /\ ImgIdle
    /\ endpoint = "chat_completions"
    /\ request \in {ChatRequest(m, s) : m \in RequestMessageLists,
                                         s \in BOOLEAN}
    /\ hpc = "called"
    /\ reply = NoReply

\* The call of generate_poe_bot_response_with_files or of
\* stream_response_with_replace that the handler sets going.
StartCall(f, fmt, msgs) ==
    /\ fn' = f /\ format_type' = fmt
    /\ model_arg' = request.model
    /\ messages' = msgs
    /\ pc' = "called"
    /\ UNCHANGED <<model, consumed, first_chunk, accumulated_response,
                   token_counts, out, received_files, response, raised>>

\* chat_completions up to its first await on the upstream, or to its end
\* when it ends before, path by path.  `accepts` is whether Poe takes the
\* uploads.

\* `if not request.messages`: the HTTPException goes through the except block.
CC_RejectEmpty ==
    /\ endpoint = "chat_completions" /\ hpc = "called"
    /\ ~Truthy(request.tools)
    /\ request.messages = <<>>
    /\ reply' = ChatExcept(EmptyMessages)
    /\ hpc' = "raised"
    /\ UNCHANGED <<tiktoken_ok, suspended, gen_vars, err_vars, conv_vars,
                   endpoint,
                   request, img_vars>>

\* The fallback text extraction raises inside the message loop.
CC_PrepareFails(accepts) ==
    /\ endpoint = "chat_completions" /\ hpc = "called"
    /\ ~Truthy(request.tools)
    /\ request.messages # <<>>
    /\ PrepareMessages(request.messages, accepts).raises
    /\ reply' = ChatExcept(Exc("AttributeError", NO_GET))
    /\ hpc' = "raised"
    /\ UNCHANGED <<tiktoken_ok, suspended, gen_vars, err_vars, conv_vars,
                   endpoint,
                   request, img_vars>>

\* `if request.stream`: the StreamingResponse over stream_openai_format.
CC_StartStream(accepts) ==
    /\ endpoint = "chat_completions" /\ hpc = "called"
    /\ ~Truthy(request.tools)
    /\ request.messages # <<>>
    /\ request.stream
    /\ \E prepared \in {PrepareMessages(request.messages, accepts)} :
         /\ ~prepared.raises
         /\ StartCall("stream_response_with_replace", "chat",
                      prepared.messages)
    /\ reply' = StreamingResponse
    /\ hpc' = "returned"
    /\ UNCHANGED <<tiktoken_ok, suspended, err_vars, conv_vars, endpoint, request,
                   img_vars>>

\* Without streaming: generate_poe_bot_response_with_files is awaited.
CC_StartResponse(accepts) ==
    /\ endpoint = "chat_completions" /\ hpc = "called"
    /\ ~Truthy(request.tools)
    /\ request.messages # <<>>
    /\ ~request.stream
    /\ \E prepared \in {PrepareMessages(request.messages, accepts)} :
         /\ ~prepared.raises
         /\ StartCall("generate_poe_bot_response_with_files", "none",
                      prepared.messages)
    /\ reply' = NoReply
    /\ hpc' = "await_response"
    /\ UNCHANGED <<tiktoken_ok, suspended, err_vars, conv_vars, endpoint, request,
                   img_vars>>

\* generate_poe_bot_response_with_files has returned: the completion body.
CC_Complete ==
    /\ endpoint = "chat_completions" /\ hpc = "await_response"
    /\ pc = "returned"
    /\ LET usage == Recount(count_message_tokens(messages), response.content)
       IN reply' = HttpOk(
            [id |-> "chatcmpl-", object |-> "chat.completion",
             model |-> request.model,
             choices |-> <<[index |-> 0,
                            message |-> [role |-> "assistant",
                                         content |-> response.content],
                            finish_reason |-> STOP]>>,
             usage |-> usage])
    /\ hpc' = "returned"
    /\ UNCHANGED <<tiktoken_ok, suspended, gen_vars, err_vars, conv_vars,
                   endpoint,
                   request, img_vars>>

\* generate_poe_bot_response_with_files has raised: the except block.
CC_Except ==
    /\ endpoint = "chat_completions" /\ hpc = "await_response"
    /\ pc = "raised"
    /\ reply' = ChatExcept(raised)
    /\ hpc' = "raised"
    /\ UNCHANGED <<tiktoken_ok, suspended, gen_vars, err_vars, conv_vars,
                   endpoint,
                   request, img_vars>>

chat_completions ==
    \/ CC_RejectEmpty
    \/ \E accepts \in BOOLEAN : CC_PrepareFails(accepts)
    \/ \E accepts \in BOOLEAN : CC_StartStream(accepts)
    \/ \E accepts \in BOOLEAN : CC_StartResponse(accepts)
    \/ CC_Complete
    \/ CC_Except

\* The upstream under a chat request.
ChatUpstream ==
    \/ GWF_Begin
    \/ \E message \in Events : GWF_OnEvent(message)
    \/ GWF_OnEnd
    \/ \E e \in ChatFaults : GWF_OnFail(e)
    \/ stream_response_with_replace

NextChat == chat_completions \/ ChatUpstream

SpecChat == InitChat /\ [][NextChat]_vars

----------------------------------------------------------------------------
(* Properties of chat_completions (under SpecChat) *)

\* The status the mapping fixes for an error kind.
StatusFor(kind) ==
    CASE kind = "invalid_request_error" -> 400
      [] kind = "authentication_error"  -> 401
      [] kind = "permission_error"      -> 403
      [] kind \in {"not_found_error", "model_not_found"} -> 404
      [] kind = "rate_limit_error"      -> 429
      [] OTHER                          -> 500

\* C10: every HTTP error the chat-completions handler raises carries the
\* status that the mapping fixes for its error kind.
C10_ErrorKindFixesStatus ==
    (endpoint = "chat_completions" /\ reply.kind = "HTTPException")
    => reply.status_code = StatusFor(reply.detail.error.type)

----------------------------------------------------------------------------
(* More properties of parse_poe_error (under SpecErrors) *)

\* `"Internal server error" in error_message` on the message returned.
MentionsServerError(message) == IsStr(message) /\ Contains(message.s, ISE_MARK)

\* C11: whichever extraction case produced the message, the kind returned
\* is model_not_found when the fault is a ValueError whose text mentions the
\* model, and otherwise poe_server_error whenever the message returned
\* contains the internal-server-error marker.
C11_OverridesAlwaysApplied ==
    epc = "returned"
    => IF IsValueError(fault) /\ Contains(fault.str, MODEL_MARK)
       THEN parsed.error_type = "model_not_found"
       ELSE MentionsServerError(parsed.error_message)
            => parsed.error_type = "poe_server_error"

\* The fault holds a payload that json.loads refuses: the whole text between
\* braces, or the text inside BotError('...').
EmbeddedParseFails(error) ==
    IF StartsWith(error.str, <<LBRACE>>) /\ EndsWith(error.str, <<RBRACE>>)
    THEN ~JsonLoads(error.str).ok
    ELSE /\ Contains(error.str, BOTERROR_OPEN)
         /\ Contains(error.str, BOTERROR_CLOSE)
         /\ ~JsonLoads(BeforeLast(AfterFirst(error.str, BOTERROR_OPEN),
                                  BOTERROR_CLOSE)).ok

ErrorKinds == {"server_error", "poe_api_error", "model_not_found",
               "poe_server_error"}

\* C12: for every fault parse_poe_error returns its four values and raises
\* nothing; when the embedded JSON payload does not parse, the message
\* returned is str(error) unchanged and there is no payload.
C12_NormalizerIsTotal ==
    epc = "returned"
    => /\ DOMAIN parsed = {"error_message", "error_data", "error_type",
                           "error_id"}
       /\ parsed.error_type \in ErrorKinds
       /\ EmbeddedParseFails(fault)
          => /\ parsed.error_message = PyStr(fault.str)
             /\ parsed.error_data = PyNone

\* Both places where a payload fails to parse, and a null "text".
C12_Witness ==
    /\ epc = "returned"
    /\ \/ fault.str = <<LBRACE>> \o T_Ise \o <<RBRACE>>
       \/ fault.str = Wrapped(<<LBRACE>> \o T_NoAccess \o <<RBRACE>>)
    /\ parsed.error_message = PyStr(fault.str)

----------------------------------------------------------------------------
(* More properties of the generators (under Spec) *)

ErrorEvents == {i \in 1..Len(out) : IsErrorEvent(out[i])}

\* C13: the error event of a streaming generator carries usage exactly when
\* the buffer is not empty at the failure; then completion_tokens is the
\* count of the buffer and total_tokens is prompt_tokens plus it.
C13_ErrorUsageIffTextAccumulated ==
    fn \in StreamingFns
    => \A i \in ErrorEvents :
         /\ HasUsage(out[i]) <=> accumulated_response # <<>>
         /\ HasUsage(out[i])
            => LET usage == out[i].json.usage IN
               /\ usage.completion_tokens = count_tokens(accumulated_response)
               /\ usage.prompt_tokens =
                    count_message_tokens(messages).prompt_tokens
               /\ usage.total_tokens =
                    usage.prompt_tokens + usage.completion_tokens

\* A failure after a replacement: the usage counts the text since it.
C13_Witness ==
    /\ fn = "stream_response_with_replace" /\ pc = "returned"
    /\ Len(consumed) = 2 /\ consumed[2].is_replace_response
    /\ accumulated_response = <<"b">>
    /\ ErrorEvents # {}
    /\ \A i \in ErrorEvents :
         HasUsage(out[i]) /\ out[i].json.usage.completion_tokens > 0

\* A failure before any text: the error event has no usage.
C13_NoTextNoUsage ==
    /\ fn \in StreamingFns /\ pc = "returned"
    /\ accumulated_response = <<>> /\ consumed # <<>>
    /\ ErrorEvents # {}
    /\ \A i \in ErrorEvents : ~HasUsage(out[i])

----------------------------------------------------------------------------
(* normalize_role over the roles of a message list *)

\* The longest list of roles.
MaxRoles == 2

\* msg.role is a str: the three roles the function names, and others.
Roles == {"user", "assistant", "system", "bot", "tool", "function", "",
          "User"}

RoleLists == UNION {[1..n -> Roles] : n \in 0..MaxRoles}

InitRoles ==
    /\ tiktoken_ok = TRUE
    /\ suspended = NoFrame
    /\ GenIdle /\ ErrIdle /\ ConvIdle /\ ImgIdle
    /\ endpoint = "normalize_role"
    /\ request \in {[kind |-> "roles", roles |-> r] : r \in RoleLists}
    /\ hpc = "called"
    /\ reply = NoReply

\* `role = normalize_role(msg.role)` for each message in turn.
Roles_Normalize ==
    /\ endpoint = "normalize_role" /\ hpc = "called"
    /\ reply' = [kind |-> "roles",
                 roles |-> [j \in 1..Len(request.roles) |->
                              normalize_role(request.roles[j])]]
    /\ hpc' = "returned"
    /\ UNCHANGED <<tiktoken_ok, suspended, gen_vars, err_vars, conv_vars,
                   endpoint,
                   request, img_vars>>

NextRoles == Roles_Normalize

SpecRoles == InitRoles /\ [][NextRoles]_vars

\* The mapping of the three named roles.
NamedRoles == {<<"user", "user">>, <<"assistant", "bot">>,
               <<"system", "system">>}

\* C14: normalize_role gives a value for every role: user for user, bot for
\* assistant, system for system, and any other role as it came.
C14_RoleMappingIsTotal ==
    (endpoint = "normalize_role" /\ hpc = "returned")
    => /\ reply.kind = "roles"
       /\ Len(reply.roles) = Len(request.roles)
       /\ \A j \in 1..Len(request.roles) :
            LET given == request.roles[j]
                named == {p \in NamedRoles : p[1] = given}
            IN IF named # {}
               THEN \A p \in named : reply.roles[j] = p[2]
               ELSE reply.roles[j] = given

\* An assistant message next to one with a role the function does not name.
C14_Witness ==
    /\ endpoint = "normalize_role" /\ hpc = "returned"
    /\ request.roles = <<"assistant", "tool">>
    /\ reply.roles = <<"bot", "tool">>

----------------------------------------------------------------------------
(* More properties of chat_completions (under SpecChat) *)

\* The handler has handed a message list to the upstream.
UpstreamCalled == endpoint = "chat_completions" /\ fn # "none"

\* The conversion of the content list raises, so that the fallback is used.
UsesFallback(msg) ==
    /\ msg.content.t = "list"
    /\ convert_openai_content_to_poe(
           msg.content.items,
           [j \in 1..Len(msg.content.items) |-> TRUE]).raises

CarriesRole(frame) ==
    /\ IsJson(frame)
    /\ "choices" \in DOMAIN frame.json
    /\ "delta" \in DOMAIN frame.json.choices[1]
    /\ "role" \in DOMAIN frame.json.choices[1].delta

ChatStream ==
    /\ fn \in {"stream_response_with_replace", "stream_response"}
    /\ format_type = "chat"

\* C16: in a chat stream the role field is in the first frame emitted, which
\* is the chunk of the first event, and in no other frame; a stream that
\* took an event has exactly one frame with it.
C16_RoleOnFirstChunkOnly ==
    ChatStream
    => LET with_role == {i \in 1..Len(out) : CarriesRole(out[i])}
       IN /\ with_role \subseteq {1}
          /\ consumed # <<>>
             => /\ with_role = {1}
                /\ out[1].json.choices[1].delta.role = "assistant"
                /\ ChunkContent(out[1].json) = ChunkTextOf(consumed[1])

\* Three events and a normal end: five frames, the role in the first.
C16_Witness ==
    /\ fn = "stream_response_with_replace" /\ format_type = "chat"
    /\ EndedNormally
    /\ Len(consumed) = 3 /\ Len(out) = 5
    /\ CarriesRole(out[1]) /\ ~CarriesRole(out[2]) /\ ~CarriesRole(out[3])

Sentinels == {i \in 1..Len(out) : IsDone(out[i])}

\* The chunk that ends the poe dialect: done = true with the counters.
IsPoeFinal(frame) ==
    /\ IsJson(frame) /\ "done" \in DOMAIN frame.json
    /\ frame.json.done = TRUE /\ HasUsage(frame)

\* C17: whether a stream has the sentinel depends on the dialect alone.  In
\* the chat and completion dialects a stream that is over has exactly one
\* [DONE], as its last frame, after the final chunk or the error event; in
\* the poe dialect no [DONE] is ever sent and the last frame is the chunk
\* with done = true and usage, or the error event.  Nothing follows a [DONE].
C17_SentinelDependsOnDialectOnly ==
    fn \in {"stream_response", "stream_response_with_replace"}
    => /\ Sentinels \subseteq {Len(out)}
       /\ format_type = "poe" => Sentinels = {}
       /\ pc = "returned"
          => LET last == IF format_type = "poe" THEN Len(out)
                         ELSE Len(out) - 1
             IN /\ format_type # "poe" => Sentinels = {Len(out)}
                /\ last >= 1
                /\ IF fault = NoFault
                   THEN /\ ~IsErrorEvent(out[last])
                        /\ IF format_type = "poe" THEN IsPoeFinal(out[last])
                           ELSE HasStop(out[last]) /\ HasUsage(out[last])
                   ELSE IsErrorEvent(out[last])

\* The failure path of a chat stream: the error event, then [DONE].
C17_Witness ==
    /\ fn = "stream_response_with_replace" /\ format_type = "chat"
    /\ pc = "returned" /\ fault # NoFault
    /\ Len(out) = Len(consumed) + 2
    /\ IsErrorEvent(out[Len(out) - 1]) /\ IsDone(out[Len(out)])

\* The same failure in the poe dialect: the error event is the last frame.
C17_PoeFailure ==
    /\ fn = "stream_response_with_replace" /\ format_type = "poe"
    /\ pc = "returned" /\ fault # NoFault
    /\ IsErrorEvent(out[Len(out)])

\* The contents of the chunks yielded from the last replace event on (from
\* the first chunk when no event replaces), concatenated.
ChunksSinceLastReplace ==
    LET marks == {i \in 1..Len(consumed) : consumed[i].is_replace_response}
        start == IF marks = {} THEN 1 ELSE Max(marks)
    IN Concat([i \in 1..(Len(consumed) - start + 1) |->
                 ChunkContent(out[start + i - 1].json)])

\* C18: the chunk of an event carries the text of that event alone (with a
\* newline and the URL when the event has an attachment), and the contents
\* of the chunks from the last replace event on, concatenated, are the
\* buffer.
C18_ChunksAreIncrements ==
    (/\ fn \in {"stream_response_with_replace",
                "stream_completions_format_with_files"}
     /\ pc # "called")
    => /\ Len(out) >= Len(consumed)
       /\ \A k \in 1..Len(consumed) :
            ChunkContent(out[k].json) = MessageText(consumed[k])
       /\ ChunksSinceLastReplace = accumulated_response

\* The same for stream_response_with_replace alone.
ChunksAreIncrementsWithReplace ==
    (fn = "stream_response_with_replace" /\ pc # "called")
    => /\ \A k \in 1..Len(consumed) :
            ChunkContent(out[k].json) = MessageText(consumed[k])
       /\ ChunksSinceLastReplace = accumulated_response

\* The generator is in its loop and has taken no event yet.
BeforeFirstEvent == pc = "await" /\ consumed = <<>>

\* The messages, every one counted as part of the prompt.
AllAsPrompt(msgs) == [i \in 1..Len(msgs) |-> [msgs[i] EXCEPT !.role = "user"]]

HasBotMessage(msgs) ==
    \E i \in 1..Len(msgs) : msgs[i].role \in {"bot", "assistant"}

\* C19: when a streaming generator waits for its first event, prompt_tokens
\* is the count over all the outgoing messages and completion_tokens is 0,
\* also when the messages hold bot messages of earlier turns.
C19_InitialCompletionTokensAreZero ==
    (fn \in StreamingFns /\ BeforeFirstEvent)
    => /\ token_counts.completion_tokens = 0
       /\ token_counts.prompt_tokens =
            count_message_tokens(AllAsPrompt(messages)).prompt_tokens

\* The same for message lists without a bot message.
InitialCountsWithoutBotMessages ==
    (fn \in StreamingFns /\ BeforeFirstEvent /\ ~HasBotMessage(messages))
    => /\ token_counts.completion_tokens = 0
       /\ token_counts.prompt_tokens =
            count_message_tokens(AllAsPrompt(messages)).prompt_tokens

\* The frame after the content chunks of a stream that ended normally.
FinalFrame == out[Len(consumed) + 1]

\* C20: the completion_tokens of the final chunk is count_tokens of the
\* buffer as a whole, whatever the events the text came in, and from the
\* start of the stream on prompt_tokens is the value computed from the
\* messages, in the counters and in the final chunk.
C20_CompletionTokensCountTheBuffer ==
    (fn \in StreamingFns /\ pc # "called")
    => /\ token_counts.prompt_tokens =
            count_message_tokens(messages).prompt_tokens
       /\ EndedNormally
          => /\ HasUsage(FinalFrame)
             /\ FinalFrame.json.usage.completion_tokens =
                  count_tokens(accumulated_response)
             /\ FinalFrame.json.usage.prompt_tokens =
                  count_message_tokens(messages).prompt_tokens

\* "a" then "b": two deltas of one token each, and a buffer of one token.
C20_Witness ==
    /\ fn = "stream_response_with_replace" /\ EndedNormally
    /\ tiktoken_ok
    /\ Len(consumed) = 2
    /\ consumed[1].text = <<"a">> /\ consumed[2].text = <<"b">>
    /\ accumulated_response = <<"a", "b">>
    /\ count_tokens(<<"a">>) + count_tokens(<<"b">>) = 2
    /\ FinalFrame.json.usage.completion_tokens = 1

----------------------------------------------------------------------------
(* count_message_tokens over message lists *)

\* The longest message list.
MaxMessages == 2

TokenRoles == {"user", "system", "bot", "assistant", "tool"}

TokenTexts == {<<>>, <<"a", "b">>, <<"a", "b", "a">>}

TokenMessages == {ProtocolMessage(r, t) : r \in TokenRoles, t \in TokenTexts}

TokenMessageLists == UNION {[1..n -> TokenMessages] : n \in 0..MaxMessages}

\* The caller keeps the list it passes in `request`.
InitTokens ==
    /\ tiktoken_ok \in BOOLEAN
    /\ suspended = NoFrame
    /\ fn = "count_message_tokens" /\ format_type = "none"
    /\ model_arg = <<>>
    /\ messages \in TokenMessageLists
    /\ pc = "called"
    /\ model = <<>> /\ consumed = <<>> /\ first_chunk = FALSE
    /\ accumulated_response = <<>> /\ token_counts = NoCounts
    /\ out = <<>> /\ received_files = <<>> /\ response = NoResponse
    /\ raised = NoFault
    /\ ErrIdle /\ ConvIdle /\ ImgIdle
    /\ endpoint = "none"
    /\ request = [kind |-> "messages", messages |-> messages]
    /\ hpc = "unused"
    /\ reply = NoReply

\* token_counts = count_message_tokens(messages)
CMT_Call ==
    /\ fn = "count_message_tokens" /\ pc = "called"
    /\ token_counts' = count_message_tokens(messages)
    /\ pc' = "returned"
    /\ UNCHANGED <<tiktoken_ok, suspended, fn, format_type, model_arg,
                   messages, model,
                   consumed, first_chunk, accumulated_response, out,
                   received_files, response, raised, err_vars, rest_vars>>

NextTokens == CMT_Call

SpecTokens == InitTokens /\ [][NextTokens]_vars

\* The sum of the token counts of the messages at the indices in S.
RECURSIVE TokensAt(_, _)
TokensAt(msgs, S) ==
    IF S = {} THEN 0
    ELSE LET i == CHOOSE j \in S : TRUE
         IN count_tokens(msgs[i].content) + TokensAt(msgs, S \ {i})

BotIndices(msgs) ==
    {i \in 1..Len(msgs) : msgs[i].role \in {"bot", "assistant"}}

\* C21: count_message_tokens gives prompt_tokens = 3 + the counts of the
\* messages that are neither bot nor assistant, completion_tokens = the
\* counts of the bot and assistant messages, total_tokens = their sum; the
\* list is left as it was; the empty list gives 3 and 0.
C21_MessageTokensByRole ==
    (fn = "count_message_tokens" /\ pc = "returned")
    => LET bots == BotIndices(messages)
           others == (1..Len(messages)) \ bots
       IN /\ token_counts.prompt_tokens = 3 + TokensAt(messages, others)
          /\ token_counts.completion_tokens = TokensAt(messages, bots)
          /\ token_counts.total_tokens =
               token_counts.prompt_tokens + token_counts.completion_tokens
          /\ messages = request.messages
          /\ messages = <<>>
             => /\ token_counts.prompt_tokens = 3
                /\ token_counts.completion_tokens = 0

\* A user message and an assistant message: 3 + 1 and 2.
C21_Witness ==
    /\ fn = "count_message_tokens" /\ pc = "returned" /\ tiktoken_ok
    /\ messages = <<ProtocolMessage("user", <<"a", "b">>),
                    ProtocolMessage("assistant", <<"a", "b", "a">>)>>
    /\ token_counts = Counts(4, 2, 6)

----------------------------------------------------------------------------
(* generate_poe_bot_response_with_files on events with several files *)

FILE_URL_2 == <<"https://cdn/f2">>

\* Deltas with two different files, a plain delta and a replacing delta.
FileEvents ==
    { Event(<<"a">>, FALSE, Attachment(FILE_URL, <<"f1">>)),
      Event(<<"b">>, FALSE, Attachment(FILE_URL_2, <<"f2">>)),
      Event(<<"a">>, FALSE, NoAttachment),
      Event(<<"b">>, TRUE, NoAttachment) }

InitFiles ==
    /\ tiktoken_ok = TRUE
    /\ suspended = NoFrame
    /\ fn = "generate_poe_bot_response_with_files" /\ format_type = "none"
    /\ model_arg \in ModelArgs
    /\ messages \in MessageLists
    /\ pc = "called"
    /\ model = <<>> /\ consumed = <<>> /\ first_chunk = FALSE
    /\ accumulated_response = <<>> /\ token_counts = NoCounts
    /\ out = <<>> /\ received_files = <<>> /\ response = NoResponse
    /\ raised = NoFault
    /\ ErrIdle
    /\ RestIdle

NextFiles ==
    \/ GWF_Begin
    \/ \E message \in FileEvents : GWF_OnEvent(message)
    \/ GWF_OnEnd
    \/ \E e \in StreamFaults : GWF_OnFail(e)

SpecFiles == InitFiles /\ [][NextFiles]_vars

\* "\n" url "\n" for each of the events evs that has an attachment, in order.
RECURSIVE UrlLines(_)
UrlLines(evs) ==
    IF evs = <<>> THEN <<>>
    ELSE LET last == evs[Len(evs)]
         IN UrlLines(Upto(evs, Len(evs) - 1))
            \o (IF HasAttachment(last)
                THEN <<NL>> \o last.attachment.url \o <<NL>>
                ELSE <<>>)

\* C22: when generate_poe_bot_response_with_files returns, the role is
\* "assistant" and the content is the buffer (the texts from the last
\* replace event on) followed by the URL of every attachment of the stream,
\* each on a line, in arrival order; nothing is emitted at any point.
C22_ContentIsBufferThenUrls ==
    fn = "generate_poe_bot_response_with_files"
    => /\ out = <<>>
       /\ pc = "returned"
          => /\ response.role = "assistant"
             /\ accumulated_response =
                  Contributions(SinceLastReplace(consumed), DeltaText)
             /\ response.content =
                  accumulated_response \o UrlLines(consumed)

\* A file, then a replacement, then another file.
C22_Witness ==
    /\ fn = "generate_poe_bot_response_with_files" /\ pc = "returned"
    /\ consumed = <<Event(<<"a">>, FALSE, Attachment(FILE_URL, <<"f1">>)),
                    Event(<<"b">>, TRUE, NoAttachment),
                    Event(<<"b">>, FALSE, Attachment(FILE_URL_2, <<"f2">>))>>
    /\ response.content = <<"b", "b", NL>> \o FILE_URL \o <<NL, NL>>
                          \o FILE_URL_2 \o <<NL>>

----------------------------------------------------------------------------
(* Properties of the failure paths of the handlers *)

\* A chat request without streaming whose upstream has failed.
UpstreamFailedNoStream ==
    /\ endpoint = "chat_completions" /\ request.stream = FALSE
    /\ fault # NoFault

IsHttpError(r) ==
    /\ r.kind = "HTTPException"
    /\ r.status_code \in 400..599
    /\ "body" \notin DOMAIN r

\* C23: without streaming, once the upstream has failed the handler does
\* not return: it ends by raising an HTTP error, whether or not text had
\* accumulated, and the error carries no body with the text.
C23_UpstreamFailureIsRaised ==
    UpstreamFailedNoStream
    => /\ pc = "raised"
       /\ hpc \in {"await_response", "raised"}
       /\ reply.kind # "response"
       /\ hpc = "raised" => IsHttpError(reply)

\* A failure after two events that left text in the buffer.
C23_Witness ==
    /\ UpstreamFailedNoStream /\ hpc = "raised"
    /\ Len(consumed) = 2 /\ accumulated_response # <<>>
    /\ IsHttpError(reply)

\* The error object of what the handler raised.
RaisedError == reply.detail.error

\* C24: what chat_completions raises has an error object with a message that
\* is a string and a type; when parse_poe_error finds an upstream id for the
\* fault the object has it as error_id, and when it parsed a payload the
\* object has it as poe_error.
C24_ErrorBodyCarriesIdAndPayload ==
    (endpoint = "chat_completions" /\ hpc = "raised")
    => /\ reply.kind = "HTTPException"
       /\ {"message", "type"} \subseteq DOMAIN RaisedError
       /\ RaisedError.message.t = "str"
       /\ fault # NoFault
          => /\ Truthy(parse_poe_error(fault).error_id)
                => /\ "error_id" \in DOMAIN RaisedError
                   /\ RaisedError.error_id = parse_poe_error(fault).error_id
             /\ Truthy(parse_poe_error(fault).error_data)
                => /\ "poe_error" \in DOMAIN RaisedError
                   /\ RaisedError.poe_error = parse_poe_error(fault).error_data

\* The same without the upstream id: the shape of the body and the payload.
ErrorBodyCarriesPayload ==
    (endpoint = "chat_completions" /\ hpc = "raised")
    => /\ reply.kind = "HTTPException"
       /\ {"message", "type"} \subseteq DOMAIN RaisedError
       /\ RaisedError.message.t = "str"
       /\ (fault # NoFault /\ Truthy(parse_poe_error(fault).error_data))
          => /\ "poe_error" \in DOMAIN RaisedError
             /\ RaisedError.poe_error = parse_poe_error(fault).error_data

----------------------------------------------------------------------------
(* chat_completions on requests with and without tools *)

\* request.tools of a request that names one function.
ToolList == PyList(<<PyDict(<<Member(TYPE_KEY, PyStr(<<"function">>))>>)>>)

\* No message, one plain message, and a message for which the fallback
\* text extraction raises.
ToolRequestMessageLists ==
    { <<>>,
      <<ChatMessage("user", PyStr(<<"a", "b">>))>>,
      <<ChatMessage("user",
                    PyList(<<PyDict(<<Member(TYPE_KEY, PyStr(<<"image_url">>)),
                                      Member(IMAGE_URL_KEY, PyStr(HttpUrl))>>)
                           >>))>> }

InitChatTools ==
    /\ tiktoken_ok = TRUE
    /\ suspended = NoFrame
    /\ GenIdle /\ ErrIdle /\ ConvIdle /\ ImgIdle
    /\ endpoint = "chat_completions"
    /\ request \in {[ChatRequest(m, s) EXCEPT !.tools = t] :
                       m \in ToolRequestMessageLists, s \in BOOLEAN,
                       t \in {PyNone, ToolList}}
    /\ hpc = "called"
    /\ reply = NoReply

\* `if request.tools`: the request is handed to
\* FakeToolCallHandler.process_request and its result is returned; the
\* statements that follow are not run.
CC_Delegate ==
    /\ endpoint = "chat_completions" /\ hpc = "called"
    /\ Truthy(request.tools)
    /\ reply' = [kind |-> "delegated", to |-> "FakeToolCallHandler"]
    /\ hpc' = "delegated"
    /\ UNCHANGED <<tiktoken_ok, suspended, gen_vars, err_vars, conv_vars,
                   endpoint,
                   request, img_vars>>

NextChatTools == CC_Delegate \/ chat_completions \/ ChatUpstream

SpecChatTools == InitChatTools /\ [][NextChatTools]_vars

\* The handler has raised the 400 for an empty messages list, and has begun
\* neither an upload nor an upstream call.
RejectedAsEmpty ==
    /\ hpc = "raised"
    /\ reply.kind = "HTTPException" /\ reply.status_code = 400
    /\ reply.detail.error.type = "invalid_request_error"
    /\ reply.detail.error.param = "messages"
    /\ fn = "none" /\ pc = "unused"
    /\ uploads = <<>> /\ cpc = "unused"

\* C25: a request to chat_completions with an empty messages list is
\* rejected with status 400, kind invalid_request_error and param
\* "messages", with no upload and no upstream call begun, whatever its other
\* fields are.
C25_EmptyMessagesRejected ==
    (endpoint = "chat_completions" /\ request.messages = <<>>
     /\ hpc # "called")
    => RejectedAsEmpty

\* The same for the requests without tools.
EmptyMessagesRejectedWithoutTools ==
    (endpoint = "chat_completions" /\ request.messages = <<>>
     /\ ~Truthy(request.tools) /\ hpc # "called")
    => RejectedAsEmpty

----------------------------------------------------------------------------
(* Two streaming requests on one event loop.  The locals of the call that *)
(* runs are the variables of the generators; the locals of the call that  *)
(* waits at an await or a yield are kept in `suspended`.                  *)

\* The most events one of the two requests takes.
MaxConcEvents == 2

ConcCalls == {<<"stream_response_with_replace", "chat">>,
              <<"stream_completions_format_with_files", "completion">>}

ConcEvents == {Event(<<"a">>, FALSE, NoAttachment),
               Event(<<"b">>, TRUE, NoAttachment)}

ConcFaults == {Exc("Exception", T_WithId)}

FirstMessages == <<ProtocolMessage("user", <<"a", "b">>)>>

SecondMessages ==
    <<ProtocolMessage("system", <<"b">>),
      ProtocolMessage("user", <<"b", "a", "b", "a", "b">>)>>

\* The locals of the call that runs.
Running ==
    [fn |-> fn, format_type |-> format_type, model_arg |-> model_arg,
     messages |-> messages, pc |-> pc, model |-> model,
     consumed |-> consumed, first_chunk |-> first_chunk,
     accumulated_response |-> accumulated_response,
     token_counts |-> token_counts, out |-> out, fault |-> fault,
     parsed |-> parsed]

\* A call that has not run yet.
NewCall(c, msgs) ==
    [fn |-> c[1], format_type |-> c[2], model_arg |-> <<SP, "GPT-4o", SP>>,
     messages |-> msgs, pc |-> "called", model |-> <<>>, consumed |-> <<>>,
     first_chunk |-> FALSE, accumulated_response |-> <<>>,
     token_counts |-> NoCounts, out |-> <<>>, fault |-> NoFault,
     parsed |-> NoParse]

InitConcurrent ==
    /\ tiktoken_ok = TRUE
    /\ \E c \in ConcCalls : suspended = NewCall(c, SecondMessages)
    /\ \E c \in ConcCalls : fn = c[1] /\ format_type = c[2]
    /\ model_arg = <<SP, "GPT-4o", SP>>
    /\ messages = FirstMessages
    /\ pc = "called"
    /\ model = <<>> /\ consumed = <<>> /\ first_chunk = FALSE
    /\ accumulated_response = <<>> /\ token_counts = NoCounts
    /\ out = <<>> /\ received_files = <<>> /\ response = NoResponse
    /\ raised = NoFault
    /\ ErrIdle
    /\ RestIdle

\* Mutant: the buffer belongs to the module and not to the call.
Mutant_Switch ==
    /\ suspended # NoFrame
    /\ suspended' = Running
    /\ fn' = suspended.fn /\ format_type' = suspended.format_type
    /\ model_arg' = suspended.model_arg /\ messages' = suspended.messages
    /\ pc' = suspended.pc /\ model' = suspended.model
    /\ consumed' = suspended.consumed
    /\ first_chunk' = suspended.first_chunk
    /\ token_counts' = suspended.token_counts
    /\ out' = suspended.out
    /\ fault' = suspended.fault /\ parsed' = suspended.parsed
    /\ UNCHANGED <<tiktoken_ok, accumulated_response, received_files,
                   response, raised, epc, rest_vars>>

\* The event loop goes from the call that runs, which waits at an await or
\* a yield (or has not begun, or is over), to the other call.
Switch ==
    /\ suspended # NoFrame
    /\ suspended' = Running
    /\ fn' = suspended.fn /\ format_type' = suspended.format_type
    /\ model_arg' = suspended.model_arg /\ messages' = suspended.messages
    /\ pc' = suspended.pc /\ model' = suspended.model
    /\ consumed' = suspended.consumed
    /\ first_chunk' = suspended.first_chunk
    /\ accumulated_response' = suspended.accumulated_response
    /\ token_counts' = suspended.token_counts
    /\ out' = suspended.out
    /\ fault' = suspended.fault /\ parsed' = suspended.parsed
    /\ UNCHANGED <<tiktoken_ok, received_files, response, raised, epc,
                   rest_vars>>

NextConcurrent ==
    \/ SRWR_Begin
    \/ \E message \in ConcEvents :
         Len(consumed) < MaxConcEvents /\ SRWR_OnEvent(message)
    \/ SRWR_Resume
    \/ SRWR_OnEnd
    \/ \E e \in ConcFaults : SRWR_OnFail(e)
    \/ SRWR_Sentinel
    \/ SRWR_Return
    \/ SCF_Begin
    \/ \E message \in ConcEvents :
         Len(consumed) < MaxConcEvents /\ SCF_OnEvent(message)
    \/ SCF_Resume
    \/ SCF_OnEnd
    \/ \E e \in ConcFaults : SCF_OnFail(e)
    \/ SCF_Sentinel
    \/ SCF_Return
    \/ Switch

SpecConcurrent == InitConcurrent /\ [][NextConcurrent]_vars

\* What a call gives when it runs alone, from its arguments and the events
\* it took: the buffer, the counters and the frames.
SoloBuffer(f) ==
    IF f.fn = "stream_response_with_replace"
    THEN Contributions(SinceLastReplace(f.consumed), MessageText)
    ELSE Contributions(f.consumed, MessageText)

SoloChunk(f, k) ==
    Sse(create_stream_chunk(
            MessageText(f.consumed[k]), normalize_model(f.model_arg),
            f.format_type, k = 1,
            IF f.fn = "stream_response_with_replace"
            THEN f.consumed[k].is_replace_response ELSE FALSE))

SoloUsage(f) ==
    IF f.fault = NoFault \/ SoloBuffer(f) # <<>>
    THEN Recount(count_message_tokens(f.messages), SoloBuffer(f))
    ELSE count_message_tokens(f.messages)

SoloEnd(f) ==
    IF f.fault = NoFault
    THEN Sse(create_final_chunk(
                 IF f.fn = "stream_response_with_replace"
                 THEN normalize_model(f.model_arg) ELSE <<"completion">>,
                 f.format_type, SoloUsage(f)))
    ELSE Sse(ErrorPayload(parse_poe_error(f.fault),
                          count_message_tokens(f.messages), SoloBuffer(f)))

SoloOut(f) ==
    [k \in 1..Len(f.consumed) |-> SoloChunk(f, k)]
    \o <<SoloEnd(f)>>
    \o (IF WantsSentinel(f.format_type) THEN <<DONE>> ELSE <<>>)

\* The call f stands as it would had it run alone on its events.
AsAlone(f) ==
    f.pc # "called"
    => /\ f.accumulated_response = SoloBuffer(f)
       /\ Len(f.out) >= Len(f.consumed)
       /\ \A k \in 1..Len(f.consumed) : f.out[k] = SoloChunk(f, k)
       /\ f.token_counts.prompt_tokens =
            count_message_tokens(f.messages).prompt_tokens
       /\ f.pc = "returned"
          => /\ f.out = SoloOut(f)
             /\ f.token_counts = SoloUsage(f)

\* A call that runs alone stands as AsAlone says (under Spec).
AloneIsAsAlone ==
    (/\ fn \in {"stream_response_with_replace",
                "stream_completions_format_with_files"}
     /\ suspended = NoFrame)
    => AsAlone(Running)

\* C26: two streaming requests that take turns at their awaits and yields
\* share nothing: at every point the frames, the buffer and the counters of
\* each are those it has when it runs alone on the same events.
C26_RequestsDoNotInterfere ==
    suspended # NoFrame => AsAlone(Running) /\ AsAlone(suspended)

\* Both requests are in the middle of their streams, with different buffers.
C26_Witness ==
    /\ suspended # NoFrame
    /\ pc = "yielded" /\ Len(consumed) = 2
    /\ suspended.pc = "await" /\ Len(suspended.consumed) = 1
    /\ accumulated_response = <<"b">>
    /\ suspended.accumulated_response = <<"a">>
    /\ fn # suspended.fn

\* Both requests are over, one by a fault, each with its own frames.
C26_BothOver ==
    /\ suspended # NoFrame
    /\ pc = "returned" /\ suspended.pc = "returned"
    /\ fault = NoFault /\ suspended.fault # NoFault
    /\ Len(consumed) = 2 /\ Len(suspended.consumed) = 2
    /\ out # suspended.out

----------------------------------------------------------------------------
(* The attempts of the image handlers, one at a time *)

\* The event loop runs a handler that can take a step: every call it awaits
\* returns or raises.
SpecImagesFair == SpecImages /\ WF_vars(NextImages)

\* n brought into 1..10, an absent n counting as 1.
Clamped(n) ==
    IF n.t = "none" THEN 1
    ELSE IF n.i < 1 THEN 1
    ELSE IF n.i > 10 THEN 10
    ELSE n.i

\* An upstream call (the bot, or the fetch of its file) is awaited.
InFlight == hpc \in {"await_bot", "await_fetch"}

\* The attempts go one by one: every attempt before the current one is
\* over, the one in flight is the only one, and the handler ends only after
\* the last.
AttemptsInSequence ==
    (endpoint \in ImageEndpoints /\ hpc # "called")
    => /\ num_images = Clamped(request.n)
       /\ num_images \in 1..10
       /\ Len(outcomes) = attempt
       /\ attempt <= num_images
       /\ InFlight => attempt < num_images
       /\ HandlerDone => attempt = num_images

\* C27: an image request makes n attempts, n clamped into 1..10, one after
\* another: at most one upstream call is awaited and it is the attempt after
\* those that are over; failed attempts do not end the loop; and the handler
\* ends, after the last attempt, with a response or an error.
C27_AttemptsAreSequentialAndEnd ==
    /\ [](AttemptsInSequence)
    /\ <>(HandlerDone /\ Len(outcomes) = num_images)

\* n = 11 is clamped to 10 attempts; the first fails and the loop goes on.
C27_Witness ==
    /\ endpoint \in ImageEndpoints /\ HandlerDone
    /\ request.n = PyInt(11)
    /\ Len(outcomes) = 10
    /\ outcomes[1] = "failed" /\ outcomes[10] = "ok"

----------------------------------------------------------------------------
(* The states of a streaming request (under Spec) *)

\* Idle, Streaming, Completed or Failed, from where the generator stands.
Phase ==
    IF pc = "called" THEN "Idle"
    ELSE IF pc \in {"await", "yielded"} THEN "Streaming"
    ELSE IF fault = NoFault THEN "Completed"
    ELSE "Failed"

PhaseSteps == {<<"Idle", "Streaming">>, <<"Streaming", "Streaming">>,
               <<"Streaming", "Completed">>, <<"Streaming", "Failed">>,
               <<"Completed", "Completed">>, <<"Failed", "Failed">>}

\* The frames that end a stream: the chunk with the counters, the error event.
FinalChunks == {i \in 1..Len(out) : HasUsage(out[i]) /\ ~IsErrorEvent(out[i])}

Terminals == FinalChunks \cup ErrorEvents

StateMachineFns == {"stream_response_with_replace", "stream_response"}

\* One terminal frame at most, one exactly when the stream is over or in a
\* terminal state; it follows the chunks of the events taken, and only the
\* sentinel follows it.
OneTerminal ==
    fn \in StateMachineFns
    => /\ Cardinality(Terminals) <= 1
       /\ Phase \in {"Idle", "Streaming"} => Terminals = {}
       /\ Phase = "Completed"
          => Cardinality(FinalChunks) = 1 /\ ErrorEvents = {}
       /\ Phase = "Failed"
          => Cardinality(ErrorEvents) = 1 /\ FinalChunks = {}
       /\ \A k \in Terminals :
            /\ k = Len(consumed) + 1
            /\ Len(out) <= k + 1
            /\ Len(out) = k + 1 => IsDone(out[k + 1])

\* A step goes along the state machine, and in a terminal state it takes no
\* event and emits nothing but the sentinel.
PhaseStep ==
    fn \in StateMachineFns
    => /\ <<Phase, Phase'>> \in PhaseSteps
       /\ Phase \in {"Completed", "Failed"}
          => /\ consumed' = consumed
             /\ out' = out \/ out' = Append(out, DONE)

\* C28: a streaming request goes Idle, Streaming, then Completed or Failed
\* and stays there; its stream has the final chunk with the counters or the
\* error event, one of them and never both, and after that frame and its
\* sentinel nothing is emitted and no event is taken.
C28_OneTerminalState ==
    [](OneTerminal) /\ [][PhaseStep]_vars

\* A failed stream that is over: three chunks, the error event, [DONE].
C28_Witness ==
    /\ fn = "stream_response" /\ format_type = "completion"
    /\ pc = "returned" /\ Phase = "Failed"
    /\ Len(consumed) = 3 /\ Len(out) = 5
    /\ ErrorEvents = {4} /\ FinalChunks = {}

----------------------------------------------------------------------------
(* The order of the extraction cases of parse_poe_error (under SpecErrors) *)

\* `error_str.startswith("{") and error_str.endswith("}")`
Braced(s) == StartsWith(s, <<LBRACE>>) /\ EndsWith(s, <<RBRACE>>)

\* The string is a JSON object.
IsJsonObject(s) == Braced(s) /\ JsonLoads(s).ok

\* What stands between BotError(' and the last ').
EmbeddedPayload(s) == BeforeLast(AfterFirst(s, BOTERROR_OPEN), BOTERROR_CLOSE)

\* The string has the marker of a wrapped exception around a JSON object.
HasWrappedObject(s) ==
    /\ Contains(s, BOTERROR_OPEN) /\ Contains(s, BOTERROR_CLOSE)
    /\ JsonLoads(EmbeddedPayload(s)).ok
    /\ JsonLoads(EmbeddedPayload(s)).val.t = "dict"

\* The kinds the overrides put in place of the kind of the extraction.
OverrideKinds ==
    {k \in {"model_not_found"} :
        IsValueError(fault) /\ Contains(fault.str, MODEL_MARK)}
    \cup {k \in {"poe_server_error"} :
        MentionsServerError(parsed.error_message)}

ExtractedKindIs(kind) ==
    parsed.error_type = kind \/ parsed.error_type \in OverrideKinds

\* The result is taken from the object: its text (the raw string without
\* one) as message, the object as payload, the kind poe_api_error.
TakenFrom(obj) ==
    /\ parsed.error_message = DictGet(obj, TEXT_KEY, PyStr(fault.str))
    /\ parsed.error_data = obj
    /\ ExtractedKindIs("poe_api_error")

\* C29: the extraction cases are tried in order and the first that matches
\* decides.  A string that is a JSON object gives the object's text (the
\* raw string when it has none) as message and the kind poe_api_error, also
\* when it holds the marker of a wrapped exception; otherwise a string with
\* that marker around a JSON object is treated the same way with the
\* embedded object; otherwise, and when the string in braces is no JSON, the
\* raw string is the message and the kind is server_error.  (The kind is
\* the one of the extraction, before the overrides.)
C29_FirstMatchingCaseWins ==
    epc = "returned"
    => LET s == fault.str IN
       /\ IsJsonObject(s) => TakenFrom(JsonLoads(s).val)
       /\ (~Braced(s) /\ HasWrappedObject(s))
          => TakenFrom(JsonLoads(EmbeddedPayload(s)).val)
       /\ (~IsJsonObject(s) /\ (Braced(s) \/ ~HasWrappedObject(s)))
          => /\ parsed.error_message = PyStr(s)
             /\ ExtractedKindIs("server_error")

\* A JSON object with the marker in its text: the text is the message.
C29_Witness ==
    /\ epc = "returned" /\ fault.str = MarkedObject
    /\ HasWrappedObject(fault.str)
    /\ parsed.error_message = PyStr(Wrapped(<<LBRACE, RBRACE>>))
    /\ parsed.error_type = "poe_api_error"

\* Braces around a wrapped payload: the first case alone has decided.
BracedWrappedIsRaw ==
    (epc = "returned" /\ fault.str = BracedWrapped)
    => /\ HasWrappedObject(fault.str) /\ ~IsJsonObject(fault.str)
       /\ parsed.error_message = PyStr(fault.str)
       /\ parsed.error_data = PyNone

----------------------------------------------------------------------------
(* What convert_openai_content_to_poe returns (under SpecContent) *)

IsImagePart(comp) ==
    DictGet(comp, TYPE_KEY, PyNone) \in {PyStr(<<"image_url">>),
                                          PyStr(<<"image">>)}

\* The URL of an image part whose upload was tried.
UrlOfPart(comp) ==
    IF DictGet(comp, TYPE_KEY, PyNone) = PyStr(<<"image_url">>)
    THEN DictGet(DictGet(comp, IMAGE_URL_KEY, PyNone), URL_KEY, PyNone).s
    ELSE DictGet(comp, IMAGE_URL_KEY, PyNone).s

\* The parts among the first j that were gone through and have an entry in
\* the text: the text parts and the image parts whose upload was tried.
WithEntry(j) ==
    {k \in 1..j : IsTextPart(content_arg[k]) \/ uploads[k] # "none"}

PositionOf(j) == Cardinality(WithEntry(j))

\* The parts among the first j whose upload succeeded.
UploadedAmong(j) == {k \in 1..j : uploads[k] = "uploaded"}

\* The parts the loop has gone through without raising.
PartsDone ==
    IF cpc = "raised" THEN Len(uploads) - 1 ELSE Len(uploads)

\* The entry and the attachment of the part j are where the part stands.
PartInPlace(j) ==
    LET comp == content_arg[j] IN
    /\ IsTextPart(comp)
       => /\ Len(text_parts) >= PositionOf(j)
          /\ text_parts[PositionOf(j)] = DictGet(comp, TEXT_KEY, PyNone).s
    /\ uploads[j] = "uploaded"
       => LET a == Cardinality(UploadedAmong(j)) IN
          /\ IsImagePart(comp)
          /\ Len(attachments) >= a /\ Len(text_parts) >= PositionOf(j)
          /\ text_parts[PositionOf(j)] =
               IF StartsWith(UrlOfPart(comp), DATA_PREFIX)
               THEN UploadedPlaceholder(attachments[a].name)
               ELSE FromUrlPlaceholder(attachments[a].name)

\* C30: the attachments returned are one for each image part whose upload
\* succeeded, in the order of the parts, and in the text every part stands
\* at its own position: a text part as its text, an uploaded data-URI image
\* as "[Uploaded Image: <name>]", an uploaded URL image as "[Image from
\* URL: <name>]"; a list that is empty or has no image part makes the call
\* return, and with no attachments.
C30_AttachmentsAndTextFollowTheParts ==
    /\ \A j \in 1..PartsDone : PartInPlace(j)
    /\ Len(attachments) = Cardinality(UploadedAmong(PartsDone))
    /\ Len(text_parts) = PositionOf(PartsDone)
    /\ cpc = "returned"
       => /\ Len(uploads) = Len(content_arg)
          /\ converted = <<Join(<<SP>>, text_parts), attachments>>
    /\ (\A k \in 1..Len(content_arg) : ~IsImagePart(content_arg[k]))
       => /\ cpc # "raised"
          /\ attachments = <<>>
          /\ cpc = "returned" => converted[2] = <<>>

\* A URL image, a text and a data-URI image, both uploads accepted.
C30_Witness ==
    /\ cpc = "returned"
    /\ content_arg = <<ImageUrlPart(HttpUrl), TextPart(<<"a">>),
                       ImageUrlPart(GoodDataUrl)>>
    /\ uploads = <<"uploaded", "none", "uploaded">>
    /\ Len(converted[2]) = 2
    /\ converted[1] = FromUrlPlaceholder(<<"remote_file">>)
                      \o <<SP, "a", SP>>
                      \o UploadedPlaceholder(<<"uploaded_file.", "png">>)

\* The empty list: the empty text, no attachments.
EmptyListReturns ==
    (cpc = "returned" /\ content_arg = <<>>) => converted = <<<<>>, <<>>>>

----------------------------------------------------------------------------
(* The model identifier on the chunks of a stream (under Spec) *)

\* The chunks of the stream so far: the frames that are no error event and
\* no sentinel.
ChunkFrames == {i \in 1..Len(out) : IsJson(out[i]) /\ ~IsErrorEvent(out[i])}

\* The chunk carries the model named in the request, trimmed.
CarriesRequestModel(json) ==
    "model" \in DOMAIN json /\ json.model = Strip(model_arg)

ChatStreamCall ==
    fn = "stream_response_with_replace" /\ format_type = "chat"

LegacyCompletionStreamCall == fn = "stream_completions_format_with_files"

\* C31: every chunk of the chat stream and of the legacy-completion stream,
\* the content chunks and the terminal chunk alike, carries the trimmed
\* model of the request as its model identifier.
C31_EveryChunkCarriesRequestModel ==
    (ChatStreamCall \/ LegacyCompletionStreamCall)
    => \A i \in ChunkFrames : CarriesRequestModel(out[i].json)

\* What holds: the chat stream, and the content chunks of the
\* legacy-completion stream.
ChatStreamCarriesRequestModel ==
    /\ ChatStreamCall => \A i \in ChunkFrames : CarriesRequestModel(out[i].json)
    /\ LegacyCompletionStreamCall
       => \A i \in ChunkFrames :
            ~HasStop(out[i]) => CarriesRequestModel(out[i].json)

\* The terminal chunk of the legacy-completion stream names "completion".
CompletionFinalNamesLiteral ==
    LegacyCompletionStreamCall
    => \A i \in ChunkFrames :
         HasStop(out[i]) => out[i].json.model = <<"completion">>

----------------------------------------------------------------------------
(* The same fault with and without streaming (under SpecChat) *)

\* The error object stream_response_with_replace puts into its error event
\* for the fault.
StreamReport(e) ==
    ErrorPayload(parse_poe_error(e), token_counts, accumulated_response).error

SameKindAndMessage(a, b) == a.type = b.type /\ a.message = b.message

\* The handler has raised for a fault of the upstream, without streaming.
RaisedForFault == UpstreamFailedNoStream /\ hpc = "raised"

\* C32: a fault of the upstream is reported with the same kind and message
\* with and without streaming: the error event of the chat stream and the
\* error body chat_completions raises both have the type and the message
\* that the stream reports for that fault.
C32_SameReportStreamingOrNot ==
    /\ (endpoint = "chat_completions" /\ request.stream /\ fault # NoFault)
       => \A i \in ErrorEvents :
            SameKindAndMessage(out[i].json.error, StreamReport(fault))
    /\ RaisedForFault => SameKindAndMessage(RaisedError, StreamReport(fault))

\* What holds: the stream reports what parse_poe_error gives, and so does the
\* handler for a fault that is no ValueError and has no payload to pass on.
SameReportWithoutPayload ==
    /\ (endpoint = "chat_completions" /\ request.stream /\ fault # NoFault)
       => \A i \in ErrorEvents :
            SameKindAndMessage(out[i].json.error, StreamReport(fault))
    /\ (RaisedForFault /\ ~IsValueError(fault)
        /\ ~Truthy(parse_poe_error(fault).error_data))
       => SameKindAndMessage(RaisedError, StreamReport(fault))

\* A fault with a payload is raised with the prefixed message.
PayloadFaultIsPrefixed ==
    (RaisedForFault /\ Truthy(parse_poe_error(fault).error_data))
    => /\ RaisedError.type = "poe_api_error"
       /\ RaisedError.message # StreamReport(fault).message

----------------------------------------------------------------------------
(* The text accounted for with and without streaming (under Spec) *)

\* The buffer stream_response_with_replace is left with by the events evs.
StreamBufferFor(evs) == Contributions(SinceLastReplace(evs), MessageText)

AccumulatorReturned ==
    fn = "generate_poe_bot_response_with_files" /\ pc = "returned"

NoAttachments(evs) == \A k \in 1..Len(evs) : ~HasAttachment(evs[k])

\* C33: for a sequence of events that ends normally, the buffer the chat
\* stream counts completion_tokens from and the content that
\* generate_poe_bot_response_with_files returns are the same text, and so
\* is the number of tokens counted from them, with files and with replace
\* events too.
C33_StreamAndAccumulatorAgree ==
    /\ (fn = "stream_response_with_replace" /\ EndedNormally)
       => accumulated_response = StreamBufferFor(consumed)
    /\ AccumulatorReturned
       => /\ response.content = StreamBufferFor(consumed)
          /\ count_tokens(response.content) =
               count_tokens(StreamBufferFor(consumed))

\* What holds: the two agree on the sequences without a file.
AgreeWithoutAttachments ==
    /\ (fn = "stream_response_with_replace" /\ EndedNormally)
       => accumulated_response = StreamBufferFor(consumed)
    /\ (AccumulatorReturned /\ NoAttachments(consumed))
       => response.content = StreamBufferFor(consumed)

\* With a file among the events the two texts differ.
DifferWithAttachments ==
    (AccumulatorReturned /\ ~NoAttachments(consumed))
    => response.content # StreamBufferFor(consumed)

============================================================================
